---- MODULE Spec2Model ----
(***************************************************************************)
(* Configuration synthesis of LLMsVerifier: suffix derivation, document    *)
(* assembly, the write of the output file and the challenge-log monitor.   *)
(* The repository holds several scripts that implement the same pipeline   *)
(* with variations; each modelled script keeps a short prefix:             *)
(*   csf_  create_complete_suffixes_final.py                               *)
(*   csc_  create_suffixes_config.py                                       *)
(*   crc_  create_complete_real_config.py                                  *)
(*   cmc_  create_complete_models_config.py                                *)
(*   opt_  generate_ultimate_opencode_optimized.py                         *)
(*   exp_  scripts/export_opencode_config.py                               *)
(*   mon_  monitor_ultimate_challenge.py                                   *)
(*   fc_   generate_ultimate_opencode_from_challenge.py                    *)
(*   enh_  generate_ultimate_opencode_enhanced.py                          *)
(*   sv_   scripts/validate_opencode_config.py                             *)
(*   ofx_  scripts/export_opencode_config_fixed.py                         *)
(*   fin_  final_llmverifier_opencode.py                                   *)
(***************************************************************************)
EXTENDS Integers, Sequences, FiniteSets, TLC

VARIABLES
    row,        \* the row handed to the suffix derivation
    derived,    \* what the derivation produced for it
    db,         \* all_models / all_models_with_caps: the rows the query returned
    environ,    \* os.environ: environment variable name -> value
    script,     \* the script that is running
    bpc,        \* where the running script is
    config,     \* opencode_config, the document the script assembled
    raised,     \* the exception that ended the script, "" when none
    fs,         \* the output file: whether it exists, its content, its mode
    log,        \* the challenge log: whether it exists, its lines, its mtime
    dotenv,     \* the KEY=value lines of the .env file
    clock,      \* the last reading of datetime.now(), in seconds
    backups,    \* the backup files: timestamp of the name -> file
    running,    \* UltimateChallengeMonitor.running
    observer,   \* UltimateChallengeMonitor.observer: none, started or stopped
    handlers,   \* whether signal_handler is installed for SIGINT and SIGTERM
    generation_count,  \* UltimateChallengeMonitor.generation_count
    last_modified,     \* ChallengeLogHandler.last_modified
    queue,      \* the observer's queue of modified events of .log paths
    mpc,        \* where the main thread is
    opc,        \* whether the observer thread is in a dispatch
    run,        \* per thread, the generate_config call it is executing
    heap,       \* the dict objects of final_opencode_comparison: address -> dict
    vpc,        \* where main of final_opencode_comparison is
    vdoc,       \* our_config as load_json_file returned it, by value
    vresult,    \* validation_result
    fixed,      \* the address of fixed_config, 0 before it exists
    sgen,       \* the generator whose generate_config is run repeatedly
    sinput,     \* the input the generator was constructed with
    sdocs,      \* the documents generate_config returned, in the order of the calls
    sclock,     \* the last reading of datetime.now() by a generator
    rtm,        \* the RealTimeLogMonitor object: running, thread, last_size, update_queue
    loops,      \* the threads start() created, each with its place in _monitor_loop
    caller,     \* the thread that calls start() and stop(), and its calls so far
    poller,     \* the frame of monitor_log_file: its place and its last_size
    detected,   \* how often a poller has found the log larger than last_size
    reruns,     \* how often a poller has called its callback
    gen_result  \* the last generate_config call of the monitor: what it returned,
                \* why, and the output file it found

derive_vars == <<row, derived>>
batch_vars == <<db, environ, script, bpc, config, raised>>
mon_vars == <<log, dotenv, clock, backups, running, observer, handlers,
              generation_count, last_modified, queue, mpc, opc, run>>

val_vars == <<heap, vpc, vdoc, vresult, fixed>>
syn_vars == <<sgen, sinput, sdocs, sclock>>
poll_vars == <<rtm, loops, caller, poller, detected, reruns>>
ext_vars == <<val_vars, syn_vars, poll_vars, gen_result>>
not_val_vars == <<derive_vars, batch_vars, mon_vars, syn_vars, poll_vars, gen_result>>
not_syn_vars == <<derive_vars, batch_vars, mon_vars, fs, val_vars, poll_vars, gen_result>>

vars == <<row, derived, db, environ, script, bpc, config, raised, fs,
          log, dotenv, clock, backups, running, observer, handlers,
          generation_count, last_modified, queue, mpc, opc, run, ext_vars>>

(***************************************************************************)
(* Helpers for Python values.                                              *)
(***************************************************************************)

\* d[k] = v on a dict: inserts the key or silently replaces its value.
Put(d, k, v) == [x \in (DOMAIN d) \cup {k} |-> IF x = k THEN v ELSE d[x]]

\* '|'.join(suffixes)
RECURSIVE Join(_)
Join(s) ==
    IF Len(s) = 0 THEN ""
    ELSE IF Len(s) = 1 THEN s[1]
    ELSE s[1] \o "|" \o Join(Tail(s))

\* sum(f[x] for x in S)
RECURSIVE SumOver(_, _)
SumOver(f, S) ==
    IF S = {} THEN 0
    ELSE LET x == CHOOSE y \in S : TRUE IN f[x] + SumOver(f, S \ {x})

\* suffixes.append(token) under an if
AppendIf(s, cond, token) == IF cond THEN Append(s, token) ELSE s

(***************************************************************************)
(* Suffix derivation of create_complete_suffixes_final.py.                 *)
(***************************************************************************)

\* lines 117-136: the capability tokens in the order of the if statements
csf_capability_suffixes(r) ==
    LET s1 == AppendIf(<<>>, r.supports_streaming, "streaming")
        s2 == AppendIf(s1, r.supports_json_mode, "json")
        s3 == AppendIf(s2, r.supports_reasoning, "reasoning")
        s4 == AppendIf(s3, r.supports_parallel_tool_use, "parallel")
        s5 == AppendIf(s4, r.supports_mcps, "mcp")
        s6 == AppendIf(s5, r.supports_lsps, "lsp")
        s7 == AppendIf(s6, r.supports_acps, "acp")
        s8 == AppendIf(s7, r.supports_brotli, "brotli")
        s9 == AppendIf(s8, r.supports_multimodal, "multimodal")
    IN  s9

\* lines 139-150 and 153-164: the same ladder for both scores
csf_score_suffix(score) ==
    IF score >= 95 THEN "premium"
    ELSE IF score >= 90 THEN "elite"
    ELSE IF score >= 85 THEN "quality"
    ELSE IF score >= 80 THEN "standard"
    ELSE IF score >= 75 THEN "basic"
    ELSE "free"

\* lines 114-164: both tier tokens are appended, nothing is removed
csf_suffixes(r) ==
    Append(Append(csf_capability_suffixes(r), csf_score_suffix(r.code_quality_score)),
           csf_score_suffix(r.overall_score))

\* lines 167-172
csf_final_model_id(r) ==
    LET suffixes == csf_suffixes(r)
    IN  IF Len(suffixes) > 0 THEN r.model_id \o "(" \o Join(suffixes) \o ")"
        ELSE r.model_id

(***************************************************************************)
(* Suffix derivation of create_suffixes_config.py.                         *)
(***************************************************************************)

\* lines 99-133: brotli and multimodal come first here
csc_capability_suffixes(r) ==
    LET s1 == AppendIf(<<>>, r.supports_brotli, "brotli")
        s2 == AppendIf(s1, r.supports_multimodal, "multimodal")
        s3 == AppendIf(s2, r.supports_streaming, "streaming")
        s4 == AppendIf(s3, r.supports_json_mode, "json")
        s5 == AppendIf(s4, r.supports_reasoning, "reasoning")
        s6 == AppendIf(s5, r.supports_parallel_tool_use, "parallel")
        s7 == AppendIf(s6, r.supports_mcps, "mcp")
        s8 == AppendIf(s7, r.supports_lsps, "lsp")
        s9 == AppendIf(s8, r.supports_acps, "acp")
    IN  s9

\* lines 136-139: no token below 75
csc_quality_suffix(s, score) ==
    IF score >= 85 THEN Append(s, "quality")
    ELSE IF score >= 75 THEN Append(s, "good")
    ELSE s

\* lines 142-145: no token below 80
csc_overall_suffix(s, score) ==
    IF score >= 90 THEN Append(s, "premium")
    ELSE IF score >= 80 THEN Append(s, "standard")
    ELSE s

csc_suffixes(r) ==
    csc_overall_suffix(csc_quality_suffix(csc_capability_suffixes(r), r.code_quality_score),
                       r.overall_score)

\* lines 148-153: the else branch reads original_model_name, which the
\* function never binds, so an empty suffix list raises NameError
csc_raises(r) == Len(csc_suffixes(r)) = 0

csc_final_model_id(r) == r.model_id \o "(" \o Join(csc_suffixes(r)) \o ")"

(***************************************************************************)
(* Rows of the derivation check: every combination of the nine capability  *)
(* flags with sample scores around each threshold.                         *)
(***************************************************************************)

ScoreSamples == {40, 60, 74, 75, 80, 85, 90, 92, 95, 96}

DeriveRows ==
    [ model_id : {"foo"},
      supports_brotli : BOOLEAN, supports_multimodal : BOOLEAN,
      supports_streaming : BOOLEAN, supports_json_mode : BOOLEAN,
      supports_reasoning : BOOLEAN, supports_parallel_tool_use : BOOLEAN,
      supports_mcps : BOOLEAN, supports_lsps : BOOLEAN, supports_acps : BOOLEAN,
      code_quality_score : ScoreSamples, overall_score : ScoreSamples ]

NotDerived == [by |-> "none", raised |-> FALSE, suffixes |-> <<>>, final_model_id |-> ""]

NoRow == [model_id |-> ""]
NoConfig == [provider |-> <<>>]
NoFile == [exists |-> FALSE, content |-> <<>>, mode |-> "none"]

BatchIdle ==
    /\ db = <<>>
    /\ environ = <<>>
    /\ script = "none"
    /\ bpc = "idle"
    /\ config = NoConfig
    /\ raised = ""

Threads == {"main", "observer"}
NoRun == [pc |-> "none", config |-> NoConfig]
NoLog == [exists |-> FALSE, lines |-> <<>>, mtime |-> 0]

MonitorIdle ==
    /\ log = NoLog
    /\ dotenv = <<>>
    /\ clock = 0
    /\ backups = <<>>
    /\ running = FALSE
    /\ observer = "none"
    /\ handlers = FALSE
    /\ generation_count = 0
    /\ last_modified = 0
    /\ queue = <<>>
    /\ mpc = [at |-> "idle", step |-> 0]
    /\ opc = "idle"
    /\ run = [t \in Threads |-> NoRun]

ValidatorIdle ==
    /\ heap = <<>>
    /\ vpc = "idle"
    /\ vdoc = <<>>
    /\ vresult = <<>>
    /\ fixed = 0

SynthIdle ==
    /\ sgen = "none"
    /\ sinput = <<>>
    /\ sdocs = <<>>
    /\ sclock = 0

\* RealTimeLogMonitor.__init__, lines 630-637 of
\* generate_ultimate_opencode_enhanced.py
NewMonitor == [running |-> FALSE, thread |-> 0, last_size |-> 0, update_queue |-> 0]

PollIdle ==
    /\ rtm = NewMonitor
    /\ loops = <<>>
    /\ caller = [pc |-> "idle", calls |-> 0]
    /\ poller = [pc |-> "idle", last_size |-> 0]
    /\ detected = 0
    /\ reruns = 0

NoResult == [returned |-> "none", cause |-> "", before |-> NoFile, calls |-> 0]

ExtIdle == ValidatorIdle /\ SynthIdle /\ PollIdle /\ gen_result = NoResult

InitDerive ==
    /\ ExtIdle
    /\ row \in DeriveRows
    /\ derived = NotDerived
    /\ BatchIdle
    /\ MonitorIdle
    /\ fs = NoFile

\* one iteration of the loop body of create_complete_suffixes_final, lines 113-172
csf_derive ==
    /\ derived.by = "none"
    /\ derived' = [by |-> "csf", raised |-> FALSE, suffixes |-> csf_suffixes(row),
                   final_model_id |-> csf_final_model_id(row)]
    /\ UNCHANGED <<ext_vars, row, batch_vars, mon_vars, fs>>

\* one iteration of the loop body of create_suffixes_config, lines 96-153
csc_derive ==
    /\ derived.by = "none"
    /\ derived' = IF csc_raises(row)
                  THEN [by |-> "csc", raised |-> TRUE, suffixes |-> <<>>,
                        final_model_id |-> ""]
                  ELSE [by |-> "csc", raised |-> FALSE, suffixes |-> csc_suffixes(row),
                        final_model_id |-> csc_final_model_id(row)]
    /\ UNCHANGED <<ext_vars, row, batch_vars, mon_vars, fs>>

NextDerive == csf_derive \/ csc_derive

SpecDerive == InitDerive /\ [][NextDerive]_vars

(***************************************************************************)
(* Claims about the derived suffix list.                                   *)
(***************************************************************************)

NoDuplicates(s) == \A i, j \in 1..Len(s) : i # j => s[i] # s[j]

\* C4: the derived suffix list of every record contains no duplicate token
\* (coinciding quality-tier and overall-tier tokens are collapsed to one).
C4_NoDuplicateTokens ==
    (derived.by # "none" /\ ~derived.raised) => NoDuplicates(derived.suffixes)

\* The order and the ladder the spec fixes (section 4.2).
CapabilityOrder ==
    << <<"supports_streaming", "streaming">>, <<"supports_json_mode", "json">>,
       <<"supports_reasoning", "reasoning">>, <<"supports_parallel_tool_use", "parallel">>,
       <<"supports_mcps", "mcp">>, <<"supports_lsps", "lsp">>, <<"supports_acps", "acp">>,
       <<"supports_brotli", "brotli">>, <<"supports_multimodal", "multimodal">> >>

RECURSIVE TrueCapabilityTokens(_, _)
TrueCapabilityTokens(r, i) ==
    IF i > Len(CapabilityOrder) THEN <<>>
    ELSE (IF r[CapabilityOrder[i][1]] THEN <<CapabilityOrder[i][2]>> ELSE <<>>)
         \o TrueCapabilityTokens(r, i + 1)

TierToken(score) ==
    CASE score >= 95 -> "premium"
      [] score >= 90 /\ score < 95 -> "elite"
      [] score >= 85 /\ score < 90 -> "quality"
      [] score >= 80 /\ score < 85 -> "standard"
      [] score >= 75 /\ score < 80 -> "basic"
      [] score < 75 -> "free"

\* C5: the derived list is the tokens of the true flags in the fixed order
\* streaming, json, reasoning, parallel, mcp, lsp, acp, brotli, multimodal,
\* followed by the quality-tier token and then the overall-tier token.
C5_FixedOrder ==
    (derived.by # "none" /\ ~derived.raised) =>
        derived.suffixes = TrueCapabilityTokens(row, 1)
                           \o <<TierToken(row.code_quality_score), TierToken(row.overall_score)>>

\* The same statement restricted to create_complete_suffixes_final.
FixedOrderFinal ==
    derived.by = "csf" =>
        derived.suffixes = TrueCapabilityTokens(row, 1)
                           \o <<TierToken(row.code_quality_score), TierToken(row.overall_score)>>

\* the tokens of the derived list after those of the true flags
TierPart(r, suffixes) ==
    SubSeq(suffixes, Len(TrueCapabilityTokens(r, 1)) + 1, Len(suffixes))

\* C14: each of the two scores yields exactly one tier token by the ladder
\* premium >= 95, elite >= 90, quality >= 85, standard >= 80, basic >= 75,
\* free below; no score yields no token.
C14_TierLadder ==
    derived.by # "none" =>
        TierPart(row, derived.suffixes)
            = <<TierToken(row.code_quality_score), TierToken(row.overall_score)>>

\* The same statement restricted to create_complete_suffixes_final.
TierLadderFinal ==
    derived.by = "csf" =>
        TierPart(row, derived.suffixes)
            = <<TierToken(row.code_quality_score), TierToken(row.overall_score)>>

\* the record of the scenario of the spec: foo, only streaming, 92 and 96
ScenarioRow(r) ==
    /\ r.model_id = "foo"
    /\ r.supports_streaming
    /\ \A i \in 2..Len(CapabilityOrder) : ~r[CapabilityOrder[i][1]]
    /\ r.code_quality_score = 92
    /\ r.overall_score = 96

\* C15: every record gets a key, which is its model id when the suffix list
\* is empty and otherwise model id + "(" + the suffixes joined by "|" + ")";
\* the record of the scenario is keyed "foo(streaming|elite|premium)".
C15_ModelKeyFormat ==
    derived.by # "none" =>
        /\ ~derived.raised
        /\ derived.final_model_id =
              IF derived.suffixes = <<>> THEN row.model_id
              ELSE row.model_id \o "(" \o Join(derived.suffixes) \o ")"
        /\ ScenarioRow(row) => derived.final_model_id = "foo(streaming|elite|premium)"

\* The same statement restricted to create_complete_suffixes_final.
ModelKeyFormatFinal ==
    derived.by = "csf" =>
        /\ ~derived.raised
        /\ derived.final_model_id =
              IF derived.suffixes = <<>> THEN row.model_id
              ELSE row.model_id \o "(" \o Join(derived.suffixes) \o ")"
        /\ ScenarioRow(row) => derived.final_model_id = "foo(streaming|elite|premium)"

(***************************************************************************)
(* The database scripts: query rows, environment, assembled document.      *)
(***************************************************************************)

MaxRows == 2

\* Two profiles of capability flags and scores; the second is the record of
\* the spec's scenario (only streaming, quality 92, overall 96).
Profiles ==
    { [supports_brotli |-> FALSE, supports_multimodal |-> FALSE,
       supports_streaming |-> FALSE, supports_json_mode |-> FALSE,
       supports_reasoning |-> FALSE, supports_parallel_tool_use |-> FALSE,
       supports_mcps |-> FALSE, supports_lsps |-> FALSE, supports_acps |-> FALSE,
       code_quality_score |-> 40, overall_score |-> 60],
      [supports_brotli |-> FALSE, supports_multimodal |-> FALSE,
       supports_streaming |-> TRUE, supports_json_mode |-> FALSE,
       supports_reasoning |-> FALSE, supports_parallel_tool_use |-> FALSE,
       supports_mcps |-> FALSE, supports_lsps |-> FALSE, supports_acps |-> FALSE,
       code_quality_score |-> 92, overall_score |-> 96] }

\* "openai" is a provider none of the database scripts maps to a variable.
DbProviders == {"cerebras", "openai"}
DbModelIds == {"bar", "foo"}
DbStatuses == {"verified", "failed"}

DbRows ==
    { [provider_name |-> p, model_id |-> m, model_name |-> m,
       verification_status |-> st] @@ pr :
        p \in DbProviders, m \in DbModelIds, st \in DbStatuses, pr \in Profiles }

\* ORDER BY p.name, m.model_id: the byte order of the names of the model
StrLeq(a, b) ==
    \/ a = b
    \/ <<a, b>> \in { <<"bar", "foo">>, <<"cerebras", "openai">> }

RowLeq(a, b) ==
    \/ a.provider_name # b.provider_name /\ StrLeq(a.provider_name, b.provider_name)
    \/ a.provider_name = b.provider_name /\ StrLeq(a.model_id, b.model_id)

QueryResults ==
    { q \in UNION { [1..n -> DbRows] : n \in 0..MaxRows } :
        \A i \in 1..(Len(q) - 1) : RowLeq(q[i], q[i + 1]) }

\* provider_env_map of the database scripts, for the providers of the model
provider_env_map ==
    [p \in {"cerebras", "deepseek"} |->
        IF p = "cerebras" THEN "CEREBRAS_API_KEY" ELSE "DEEPSEEK_API_KEY"]

Environments ==
    UNION { [vs -> {"", "sk-live"}] : vs \in SUBSET {"CEREBRAS_API_KEY", "DEEPSEEK_API_KEY"} }

\* os.environ.get(env_var, default)
environ_get(env, env_var, default) ==
    IF env_var \in DOMAIN env THEN env[env_var] ELSE default

\* real_api_keys: the mapped providers whose variable is set and not empty
real_api_keys(env) ==
    [p \in {q \in DOMAIN provider_env_map : environ_get(env, provider_env_map[q], "") # ""}
        |-> environ_get(env, provider_env_map[p], "")]

\* providers.api_key_encrypted, selected by create_complete_models_config
api_key_encrypted(p) == "enc:" \o p

new_provider(api_key) == [options |-> [apiKey |-> api_key], models |-> <<>>]

\* opencode_config["provider"][name]["models"][model_key] = entry
put_model(provider, name, model_key, entry) ==
    Put(provider, name, [provider[name] EXCEPT !.models = Put(@, model_key, entry)])

\* create_complete_suffixes_final, the loop body at lines 104-198
csf_add(provider, r, keys) ==
    IF r.provider_name \notin DOMAIN keys THEN provider
    ELSE LET p0 == IF r.provider_name \in DOMAIN provider THEN provider
                   ELSE Put(provider, r.provider_name, new_provider(keys[r.provider_name]))
             entry == [name |-> csf_final_model_id(r),
                       model_id |-> csf_final_model_id(r),
                       verification_status |-> r.verification_status,
                       verified |-> (r.verification_status = "verified"),
                       suffixes |-> csf_suffixes(r)]
         IN  put_model(p0, r.provider_name, csf_final_model_id(r), entry)

RECURSIVE csf_provider(_, _, _)
csf_provider(provider, rows, keys) ==
    IF rows = <<>> THEN provider
    ELSE csf_provider(csf_add(provider, Head(rows), keys), Tail(rows), keys)

csf_config(rows, env) ==
    ("$schema" :> "https://opencode.ai/config.json")
    @@ [provider |-> csf_provider(<<>>, rows, real_api_keys(env))]

\* create_suffixes_config, the loop body at lines 87-179
csc_add(provider, r, keys) ==
    IF r.provider_name \notin DOMAIN keys THEN provider
    ELSE LET p0 == IF r.provider_name \in DOMAIN provider THEN provider
                   ELSE Put(provider, r.provider_name, new_provider(keys[r.provider_name]))
             entry == [name |-> csc_final_model_id(r),
                       model_id |-> csc_final_model_id(r),
                       verification_status |-> r.verification_status,
                       verified |-> (r.verification_status = "verified"),
                       suffixes |-> csc_suffixes(r)]
         IN  put_model(p0, r.provider_name, csc_final_model_id(r), entry)

\* the first row of a keyed provider whose suffix list is empty ends the loop
\* with NameError (line 152)
RECURSIVE csc_loop_raises(_, _)
csc_loop_raises(rows, keys) ==
    /\ rows # <<>>
    /\ \/ Head(rows).provider_name \in DOMAIN keys /\ csc_raises(Head(rows))
       \/ csc_loop_raises(Tail(rows), keys)

RECURSIVE csc_provider(_, _, _)
csc_provider(provider, rows, keys) ==
    IF rows = <<>> THEN provider
    ELSE csc_provider(csc_add(provider, Head(rows), keys), Tail(rows), keys)

csc_config(rows, env) ==
    ("$schema" :> "https://opencode.ai/config.json")
    @@ [provider |-> csc_provider(<<>>, rows, real_api_keys(env))]

RECURSIVE count_verified(_)
count_verified(rows) ==
    IF rows = <<>> THEN 0
    ELSE (IF Head(rows).verification_status = "verified" THEN 1 ELSE 0)
         + count_verified(Tail(rows))

plain_entry(r) ==
    [name |-> r.model_name, model_id |-> r.model_id,
     verification_status |-> r.verification_status,
     verified |-> (r.verification_status = "verified")]

\* create_complete_real_config, the loop body at lines 85-101
crc_add(provider, r, keys) ==
    IF r.provider_name \notin DOMAIN keys THEN provider
    ELSE LET p0 == IF r.provider_name \in DOMAIN provider THEN provider
                   ELSE Put(provider, r.provider_name, new_provider(keys[r.provider_name]))
         IN  put_model(p0, r.provider_name, r.model_id, plain_entry(r))

RECURSIVE crc_provider(_, _, _)
crc_provider(provider, rows, keys) ==
    IF rows = <<>> THEN provider
    ELSE crc_provider(crc_add(provider, Head(rows), keys), Tail(rows), keys)

\* create_complete_real_config, lines 68-104: the summary is computed from the
\* row list and the key map before the provider tree is built
crc_config(rows, env) ==
    ("$schema" :> "https://opencode.ai/config.json")
    @@ [version |-> "1.0",
        provider |-> crc_provider(<<>>, rows, real_api_keys(env)),
        summary |-> [total_models |-> Len(rows),
                     verified_models |-> count_verified(rows),
                     providers |-> Cardinality(DOMAIN real_api_keys(env))]]

\* create_complete_models_config, the loop body at lines 38-63
cmc_add(provider, r) ==
    LET p0 == IF r.provider_name \in DOMAIN provider THEN provider
              ELSE Put(provider, r.provider_name,
                       new_provider(api_key_encrypted(r.provider_name)))
    IN  put_model(p0, r.provider_name, r.model_id, plain_entry(r))

RECURSIVE cmc_provider(_, _)
cmc_provider(provider, rows) ==
    IF rows = <<>> THEN provider
    ELSE cmc_provider(cmc_add(provider, Head(rows)), Tail(rows))

\* create_complete_models_config, lines 66-96
cmc_config(rows) ==
    LET providers_dict == cmc_provider(<<>>, rows)
    IN  ("$schema" :> "https://opencode.ai/config.json")
        @@ [version |-> "1.0",
            provider |-> providers_dict,
            summary |-> [total_models |-> Len(rows),
                         verified_models |-> count_verified(rows),
                         providers |-> Cardinality(DOMAIN providers_dict)]]

(***************************************************************************)
(* The output file.                                                        *)
(***************************************************************************)

\* what a file left by an earlier run holds
PreviousDocument == ("$schema" :> "https://opencode.ai/config.json") @@ [provider |-> <<>>]

\* open() creates a file with mode 0o666 & ~umask: umask 022 or 077
CreateModes == {"0o644", "0o600"}

InitialFiles ==
    {NoFile} \cup { [exists |-> TRUE, content |-> <<PreviousDocument>>, mode |-> m] :
                      m \in {"0o644", "0o600"} }

\* open(output_file, 'a'): nothing is truncated
open_a(f, create_mode) ==
    IF f.exists THEN f
    ELSE [exists |-> TRUE, content |-> <<>>, mode |-> create_mode]

\* open(output_file, 'w'): an existing file is truncated and keeps its mode,
\* a missing one is created empty with the mode the umask leaves
open_w(f, create_mode) ==
    IF f.exists THEN [f EXCEPT !.content = <<>>]
    ELSE [exists |-> TRUE, content |-> <<>>, mode |-> create_mode]

\* json.dump(config, f, ...) followed by the close at the end of the with
\* block: the document is written at the position open() left the file in
json_dump(f, document) == [f EXCEPT !.content = Append(@, document)]

\* a save that leaves the permissions as open() created them
chmod_skipped(f) == f

\* os.chmod(output_file, 0o600)
chmod_600(f) == [f EXCEPT !.mode = "0o600"]

(***************************************************************************)
(* The database scripts as programs: assemble, open, dump, chmod.          *)
(***************************************************************************)

InitBatch ==
    /\ ExtIdle
    /\ row = NoRow
    /\ derived = NotDerived
    /\ db \in QueryResults
    /\ environ \in Environments
    /\ script = "none"
    /\ bpc = "start"
    /\ config = NoConfig
    /\ raised = ""
    /\ MonitorIdle
    /\ fs \in InitialFiles

\* create_complete_suffixes_final, lines 95-198
csf_assemble ==
    /\ bpc = "start"
    /\ script' = "csf"
    /\ config' = csf_config(db, environ)
    /\ bpc' = "assembled"
    /\ UNCHANGED <<ext_vars, derive_vars, mon_vars, db, environ, raised, fs>>

\* create_suffixes_config, lines 78-179
csc_assemble ==
    /\ bpc = "start"
    /\ script' = "csc"
    /\ IF csc_loop_raises(db, real_api_keys(environ))
       THEN /\ raised' = "NameError"
            /\ bpc' = "raised"
            /\ UNCHANGED config
       ELSE /\ config' = csc_config(db, environ)
            /\ bpc' = "assembled"
            /\ UNCHANGED raised
    /\ UNCHANGED <<ext_vars, derive_vars, mon_vars, db, environ, fs>>

\* create_complete_real_config, lines 68-104
crc_assemble ==
    /\ bpc = "start"
    /\ script' = "crc"
    /\ config' = crc_config(db, environ)
    /\ bpc' = "assembled"
    /\ UNCHANGED <<ext_vars, derive_vars, mon_vars, db, environ, raised, fs>>

\* create_complete_models_config, lines 35-96
cmc_assemble ==
    /\ bpc = "start"
    /\ script' = "cmc"
    /\ config' = cmc_config(db)
    /\ bpc' = "assembled"
    /\ UNCHANGED <<ext_vars, derive_vars, mon_vars, db, environ, raised, fs>>

\* with open(output_file, 'w') as f:
batch_open ==
    /\ bpc = "assembled"
    /\ \E m \in CreateModes : fs' = open_w(fs, m)
    /\ bpc' = "opened"
    /\ UNCHANGED <<ext_vars, derive_vars, mon_vars, db, environ, script, config, raised>>

\* create_complete_suffixes_final, line 208: json.dump(opencode_config, 'w',
\* indent=2) passes the string 'w' as the file object, so the first
\* fp.write raises AttributeError; the with block closes the empty file and
\* the exception ends the script before os.chmod
csf_dump ==
    /\ bpc = "opened"
    /\ script = "csf"
    /\ raised' = "AttributeError"
    /\ bpc' = "raised"
    /\ UNCHANGED <<ext_vars, derive_vars, mon_vars, db, environ, script, config, fs>>

\* json.dump(opencode_config, f, indent=2) of the other database scripts
batch_dump ==
    /\ bpc = "opened"
    /\ script # "csf"
    /\ fs' = json_dump(fs, config)
    /\ bpc' = "dumped"
    /\ UNCHANGED <<ext_vars, derive_vars, mon_vars, db, environ, script, config, raised>>

\* os.chmod(output_file, 0o600)
batch_chmod ==
    /\ bpc = "dumped"
    /\ fs' = chmod_600(fs)
    /\ bpc' = "done"
    /\ UNCHANGED <<ext_vars, derive_vars, mon_vars, db, environ, script, config, raised>>

NextBatch ==
    \/ csf_assemble
    \/ csc_assemble
    \/ crc_assemble
    \/ cmc_assemble
    \/ batch_open
    \/ csf_dump
    \/ batch_dump
    \/ batch_chmod

SpecBatch == InitBatch /\ [][NextBatch]_vars

(***************************************************************************)
(* Claims about the documents of the database scripts.                     *)
(***************************************************************************)

\* the key under which a script files a row, and whether it files it at all
ModelKeyOf(sc, r) ==
    CASE sc = "csf" -> csf_final_model_id(r)
      [] sc = "csc" -> csc_final_model_id(r)
      [] OTHER -> r.model_id

Grouped(sc, r) == sc = "cmc" \/ r.provider_name \in DOMAIN real_api_keys(environ)

\* two rows of one provider group that produce the same model key
KeyCollision ==
    \E i, j \in 1..Len(db) :
        /\ i < j
        /\ Grouped(script, db[i]) /\ Grouped(script, db[j])
        /\ db[i].provider_name = db[j].provider_name
        /\ ModelKeyOf(script, db[i]) = ModelKeyOf(script, db[j])

\* the sum over the providers of a document of the size of their models map
ModelCount(document) ==
    SumOver([p \in DOMAIN document.provider |->
                Cardinality(DOMAIN document.provider[p].models)],
            DOMAIN document.provider)

\* the documents the output file holds
Emitted == { fs.content[i] : i \in 1..Len(fs.content) }

\* that the running script has written its document to the output file
WroteConfig == bpc \in {"dumped", "done"} /\ fs.content = <<config>>

\* C1: two records of one provider group with the same model key make the
\* assembly fail with an AssemblyError; no document is assembled from them.
C1_CollisionRaisesAssemblyError ==
    (script # "none" /\ KeyCollision) =>
        (raised = "AssemblyError" /\ bpc \notin {"assembled", "opened", "dumped", "done"})

\* C2: in every emitted document summary.total_models is the sum of the
\* sizes of the providers' models maps.
C2_TotalModelsIsSum ==
    \A d \in Emitted :
        "summary" \in DOMAIN d => d.summary.total_models = ModelCount(d)

\* C3: in every emitted document the summary's provider count is the number
\* of entries of the provider map.
C3_TotalProvidersIsSize ==
    \A d \in Emitted :
        "summary" \in DOMAIN d => d.summary.providers = Cardinality(DOMAIN d.provider)

\* the name of the placeholder's variable: the provider name in upper case
UpperName(p) == IF p = "cerebras" THEN "CEREBRAS" ELSE "OPENAI"
Placeholder(p) == "${" \o UpperName(p) \o "_API_KEY}"

\* C6: a provider whose credential is absent is neither dropped nor a
\* failure: it is in the document with its models and the placeholder
\* ${PROVIDER_NAME_API_KEY} as credential.
C6_MissingSecretKeepsProvider ==
    (script \in {"csf", "crc"} /\ bpc = "assembled") =>
        \A i \in 1..Len(db) :
            db[i].provider_name \notin DOMAIN real_api_keys(environ) =>
                /\ db[i].provider_name \in DOMAIN config.provider
                /\ config.provider[db[i].provider_name].options.apiKey
                       = Placeholder(db[i].provider_name)
                /\ ModelKeyOf(script, db[i])
                       \in DOMAIN config.provider[db[i].provider_name].models

\* the script has opened the output file: AttributeError is only raised
\* inside the with block of the write
BatchTouchedFile ==
    \/ bpc \in {"opened", "dumped", "done"}
    \/ bpc = "raised" /\ raised = "AttributeError"

\* C9: a run that touched the output path and ended leaves exactly one
\* complete serialized document of that run there, never an empty or
\* truncated file.
C9_RunLeavesCompleteDocument ==
    (bpc \in {"done", "raised"} /\ BatchTouchedFile) => fs.content = <<config>>

(***************************************************************************)
(* generate_ultimate_opencode_optimized.py: log parser, generator and      *)
(* validator used by the monitor.                                          *)
(***************************************************************************)

\* str.lower() on the provider names the model's log lines carry
Lower(name) == IF name = "OpenAI" THEN "openai" ELSE name

\* provider_env_mapping.get(provider, f"{provider.upper()}_API_KEY"), lines 37-70
opt_api_key_env(provider) ==
    IF provider = "openai" THEN "OPENAI_API_KEY" ELSE "CEREBRAS_API_KEY"

\* provider_base_urls.get(provider, ""), lines 73-106
opt_base_url(provider) ==
    IF provider = "openai" THEN "https://api.openai.com/v1" ELSE "https://api.cerebras.ai/v1"

opt_new_provider(provider, registered, count) ==
    [id |-> provider, api_key_env |-> opt_api_key_env(provider),
     base_url |-> opt_base_url(provider), registered |-> registered,
     verified |-> FALSE, total_models |-> count, verified_models |-> 0]

\* _extract_provider_registrations, lines 178-200
RECURSIVE opt_extract_provider_registrations(_, _)
opt_extract_provider_registrations(providers, lines) ==
    IF lines = <<>> THEN providers
    ELSE LET l == Head(lines)
             provider == Lower(l.provider)
             next == IF l.kind # "registered" THEN providers
                     ELSE IF provider \notin DOMAIN providers
                          THEN Put(providers, provider, opt_new_provider(provider, TRUE, 0))
                          ELSE Put(providers, provider,
                                   [providers[provider] EXCEPT !.registered = TRUE])
         IN  opt_extract_provider_registrations(next, Tail(lines))

\* _extract_model_counts, lines 202-230
RECURSIVE opt_extract_model_counts(_, _)
opt_extract_model_counts(providers, lines) ==
    IF lines = <<>> THEN providers
    ELSE LET l == Head(lines)
             provider == Lower(l.provider)
             next == IF l.kind # "found" THEN providers
                     ELSE IF provider \notin DOMAIN providers
                          THEN Put(providers, provider,
                                   opt_new_provider(provider, FALSE, l.count))
                          ELSE Put(providers, provider,
                                   [providers[provider] EXCEPT !.total_models = l.count])
         IN  opt_extract_model_counts(next, Tail(lines))

\* parse_log_file, lines 108-127 and 162-176: {} when the file is missing
opt_parse_log_file(lg) ==
    IF ~lg.exists THEN <<>>
    ELSE [providers |->
            opt_extract_model_counts(opt_extract_provider_registrations(<<>>, lg.lines),
                                     lg.lines)]

\* get_api_key, lines 259-267: the environment first, then the .env file
opt_get_api_key(env, file_keys, env_var) ==
    IF environ_get(env, env_var, "") # "" THEN env[env_var]
    ELSE environ_get(file_keys, env_var, "")

\* _get_default_models, lines 349-441
opt_get_default_models(provider_id) ==
    IF provider_id = "openai"
    THEN [m \in {"gpt-4", "gpt-4-turbo", "gpt-4o", "gpt-3.5-turbo"} |->
            [name |-> m, verified |-> FALSE]]
    ELSE <<>>

\* _generate_provider_config, lines 318-347
opt_generate_provider_config(provider_info, env, file_keys) ==
    LET api_key_env == provider_info.api_key_env
        found == opt_get_api_key(env, file_keys, api_key_env)
        api_key == IF found = "" THEN "${" \o api_key_env \o "}" ELSE found
    IN  [options |-> [apiKey |-> api_key, baseURL |-> provider_info.base_url],
         models |-> opt_get_default_models(provider_info.id),
         metadata |-> [registered |-> provider_info.registered,
                       verified |-> provider_info.verified,
                       total_models |-> provider_info.total_models]]

\* generate_config, lines 269-316
opt_generate_config(challenge_data, env, file_keys, now) ==
    LET providers == challenge_data.providers
    IN  ("$schema" :> "https://opencode.sh/schema.json")
        @@ [username |-> "OpenCode AI Assistant - Ultimate Challenge Edition",
            provider |-> [q \in DOMAIN providers |->
                            opt_generate_provider_config(providers[q], env, file_keys)],
            metadata |-> [generated_at |-> now,
                          total_providers |-> Cardinality(DOMAIN providers),
                          total_models |-> SumOver([q \in DOMAIN providers |->
                                                      providers[q].total_models],
                                                   DOMAIN providers),
                          registered_providers |->
                              Cardinality({q \in DOMAIN providers : providers[q].registered})]]

\* validate_opencode_config, lines 443-472
opt_validate_opencode_config(document) ==
    /\ {"$schema", "username", "provider"} \subseteq DOMAIN document
    /\ \A q \in DOMAIN document.provider :
        /\ "options" \in DOMAIN document.provider[q]
        /\ "models" \in DOMAIN document.provider[q]

(***************************************************************************)
(* monitor_ultimate_challenge.py: the main thread runs start(), the        *)
(* observer thread dispatches the file events to on_modified one at a      *)
(* time, and generate_config runs on whichever thread called it.           *)
(***************************************************************************)

MaxLogLines == 2
MaxClock == 1

LogLines ==
    { [kind |-> "registered", provider |-> "OpenAI", count |-> 0],
      [kind |-> "found", provider |-> "openai", count |-> 3] }

MonEnvironments == { <<>>, [OPENAI_API_KEY |-> "sk-live"] }
DotEnvFiles == { <<>>, [OPENAI_API_KEY |-> "sk-file"] }

InitMonitor ==
    /\ ExtIdle
    /\ row = NoRow
    /\ derived = NotDerived
    /\ db = <<>>
    /\ environ \in MonEnvironments
    /\ script = "none"
    /\ bpc = "idle"
    /\ config = NoConfig
    /\ raised = ""
    /\ fs \in InitialFiles
    /\ log \in {NoLog, [exists |-> TRUE, lines |-> <<>>, mtime |-> 1]}
    /\ dotenv \in DotEnvFiles
    /\ clock = 0
    /\ backups = <<>>
    /\ running = FALSE
    /\ observer = "none"
    /\ handlers = FALSE
    /\ generation_count = 0
    /\ last_modified = 0
    /\ queue = <<>>
    /\ mpc = [at |-> "not_started", step |-> 0]
    /\ opc = "idle"
    /\ run = [t \in Threads |-> NoRun]

\* start() with the file watcher set up before the initial generation
start_steps_watcher_first == <<"setup_file_watcher", "generate_config", "signal", "loop">>

\* the order of the calls in start(), lines 68-87
start_steps == <<"generate_config", "setup_file_watcher", "signal", "loop">>

\* the program appends to the log it is asked to monitor; an observer that
\* is watching the directory queues a modified event
log_append ==
    /\ log.exists
    /\ Len(log.lines) < MaxLogLines
    /\ \E l \in LogLines :
        log' = [log EXCEPT !.lines = Append(@, l), !.mtime = @ + 1]
    /\ queue' = IF observer = "started" THEN Append(queue, "modified") ELSE queue
    /\ UNCHANGED <<ext_vars, derive_vars, batch_vars, fs, dotenv, clock, backups, running, observer,
                   handlers, generation_count, last_modified, mpc, opc, run>>

\* start(), lines 65-71
mon_start ==
    /\ mpc.at = "not_started"
    /\ IF running
       THEN mpc' = [at |-> "returned", step |-> 0] /\ UNCHANGED running
       ELSE running' = TRUE /\ mpc' = [at |-> "start", step |-> 1]
    /\ UNCHANGED <<ext_vars, derive_vars, batch_vars, fs, log, dotenv, clock, backups, observer,
                   handlers, generation_count, last_modified, queue, opc, run>>

\* start(), line 74: self.generate_config() on the main thread
mon_start_generate ==
    /\ mpc.at = "start"
    /\ start_steps[mpc.step] = "generate_config"
    /\ run' = [run EXCEPT !["main"] = [pc |-> "called", config |-> NoConfig]]
    /\ mpc' = [mpc EXCEPT !.at = "in_generate"]
    /\ UNCHANGED <<ext_vars, derive_vars, batch_vars, fs, log, dotenv, clock, backups, running,
                   observer, handlers, generation_count, last_modified, queue, opc>>

\* setup_file_watcher, lines 110-129
mon_setup_file_watcher ==
    /\ mpc.at = "start"
    /\ start_steps[mpc.step] = "setup_file_watcher"
    /\ observer' = IF log.exists THEN "started" ELSE observer
    /\ mpc' = [mpc EXCEPT !.step = @ + 1]
    /\ UNCHANGED <<ext_vars, derive_vars, batch_vars, fs, log, dotenv, clock, backups, running,
                   handlers, generation_count, last_modified, queue, opc, run>>

\* start(), lines 80-81
mon_install_signal_handlers ==
    /\ mpc.at = "start"
    /\ start_steps[mpc.step] = "signal"
    /\ handlers' = TRUE
    /\ mpc' = [mpc EXCEPT !.step = @ + 1]
    /\ UNCHANGED <<ext_vars, derive_vars, batch_vars, fs, log, dotenv, clock, backups, running,
                   observer, generation_count, last_modified, queue, opc, run>>

\* start(), lines 85-87: while self.running: time.sleep(1)
mon_enter_loop ==
    /\ mpc.at = "start"
    /\ start_steps[mpc.step] = "loop"
    /\ mpc' = [mpc EXCEPT !.at = "loop"]
    /\ UNCHANGED <<ext_vars, derive_vars, batch_vars, fs, log, dotenv, clock, backups, running,
                   observer, handlers, generation_count, last_modified, queue, opc, run>>

\* SIGINT or SIGTERM while the main thread sleeps in the loop: signal_handler
\* runs on the main thread and calls stop(), whose first statement clears
\* running (lines 104-107 and 95-96)
mon_signal_stop ==
    /\ handlers
    /\ mpc.at = "loop"
    /\ running' = FALSE
    /\ mpc' = [mpc EXCEPT !.at = "stop_observer"]
    /\ UNCHANGED <<ext_vars, derive_vars, batch_vars, fs, log, dotenv, clock, backups, observer,
                   handlers, generation_count, last_modified, queue, opc, run>>

\* stop(), lines 98-99: observer.stop() ends the dispatching of further events
mon_stop_observer ==
    /\ mpc.at = "stop_observer"
    /\ observer' = IF observer = "started" THEN "stopping" ELSE observer
    /\ mpc' = [mpc EXCEPT !.at = "join"]
    /\ UNCHANGED <<ext_vars, derive_vars, batch_vars, fs, log, dotenv, clock, backups, running,
                   handlers, generation_count, last_modified, queue, opc, run>>

\* stop(), line 100: observer.join() returns once the observer thread has
\* left its current dispatch; then sys.exit(0) and the finally clause, whose
\* second stop() changes nothing (lines 108 and 90-91)
mon_join_exit ==
    /\ mpc.at = "join"
    /\ opc = "idle"
    /\ observer' = IF observer = "stopping" THEN "stopped" ELSE observer
    /\ mpc' = [mpc EXCEPT !.at = "exited"]
    /\ UNCHANGED <<ext_vars, derive_vars, batch_vars, fs, log, dotenv, clock, backups, running,
                   handlers, generation_count, last_modified, queue, opc, run>>

\* ChallengeLogHandler.on_modified on the observer thread, lines 36-49
on_modified ==
    /\ observer = "started"
    /\ opc = "idle"
    /\ queue # <<>>
    /\ queue' = Tail(queue)
    /\ IF log.mtime > last_modified
       THEN /\ last_modified' = log.mtime
            /\ run' = [run EXCEPT !["observer"] = [pc |-> "called", config |-> NoConfig]]
            /\ opc' = "busy"
       ELSE UNCHANGED <<last_modified, run, opc>>
    /\ UNCHANGED <<ext_vars, derive_vars, batch_vars, fs, log, dotenv, clock, backups, running,
                   observer, handlers, generation_count, mpc>>

\* what returning from generate_config does to the calling thread
ReturnTo(t) ==
    /\ run' = [run EXCEPT ![t] = NoRun]
    /\ IF t = "main"
       THEN mpc' = [at |-> "start", step |-> mpc.step + 1] /\ UNCHANGED opc
       ELSE opc' = "idle" /\ UNCHANGED mpc

\* generate_config, lines 143-160: parse, generate, validate
gen_parse(t) ==
    /\ run[t].pc = "called"
    /\ LET challenge_data == opt_parse_log_file(log)
       IN  IF DOMAIN challenge_data = {}
           THEN ReturnTo(t) /\ UNCHANGED clock
           ELSE \E now \in clock..MaxClock :
                  LET document == opt_generate_config(challenge_data, environ, dotenv, now)
                  IN  /\ clock' = now
                      /\ IF opt_validate_opencode_config(document)
                         THEN /\ run' = [run EXCEPT ![t] = [pc |-> "validated",
                                                             config |-> document]]
                              /\ UNCHANGED <<mpc, opc>>
                         ELSE ReturnTo(t)
    /\ UNCHANGED <<ext_vars, derive_vars, batch_vars, fs, log, dotenv, backups, running, observer,
                   handlers, generation_count, last_modified, queue>>

\* generate_config, lines 163-169: the previous file is renamed to
\* <output>.<YYYYmmdd_HHMMSS>.backup, or os.rename raises and the run goes on
\* with the previous file in place
gen_backup(t) ==
    /\ run[t].pc = "validated"
    /\ IF fs.exists
       THEN \E now \in clock..MaxClock :
              /\ clock' = now
              /\ \/ backups' = Put(backups, now, fs) /\ fs' = NoFile
                 \/ UNCHANGED <<backups, fs>>
       ELSE UNCHANGED <<clock, backups, fs>>
    /\ run' = [run EXCEPT ![t].pc = "backed_up"]
    /\ UNCHANGED <<ext_vars, derive_vars, batch_vars, log, dotenv, running, observer, handlers,
                   generation_count, last_modified, queue, mpc, opc>>

\* generate_config, line 172: open(self.output_file, 'w', encoding='utf-8')
gen_open(t) ==
    /\ run[t].pc = "backed_up"
    /\ \E m \in CreateModes : fs' = open_w(fs, m)
    /\ run' = [run EXCEPT ![t].pc = "opened"]
    /\ UNCHANGED <<ext_vars, derive_vars, batch_vars, log, dotenv, clock, backups, running, observer,
                   handlers, generation_count, last_modified, queue, mpc, opc>>

\* generate_config, line 173: json.dump(config, f, indent=2, sort_keys=True)
gen_dump(t) ==
    /\ run[t].pc = "opened"
    /\ fs' = json_dump(fs, run[t].config)
    /\ run' = [run EXCEPT ![t].pc = "dumped"]
    /\ UNCHANGED <<ext_vars, derive_vars, batch_vars, log, dotenv, clock, backups, running, observer,
                   handlers, generation_count, last_modified, queue, mpc, opc>>

\* generate_config, lines 176-188: chmod, count the generation, return True
gen_chmod(t) ==
    /\ run[t].pc = "dumped"
    /\ fs' = chmod_600(fs)
    /\ generation_count' = generation_count + 1
    /\ ReturnTo(t)
    /\ UNCHANGED <<ext_vars, derive_vars, batch_vars, log, dotenv, clock, backups, running, observer,
                   handlers, last_modified, queue>>

NextMonitor ==
    \/ log_append
    \/ mon_start
    \/ mon_start_generate
    \/ mon_setup_file_watcher
    \/ mon_install_signal_handlers
    \/ mon_enter_loop
    \/ mon_signal_stop
    \/ mon_stop_observer
    \/ mon_join_exit
    \/ on_modified
    \/ \E t \in Threads : gen_parse(t)
    \/ \E t \in Threads : gen_backup(t)
    \/ \E t \in Threads : gen_open(t)
    \/ \E t \in Threads : gen_dump(t)
    \/ \E t \in Threads : gen_chmod(t)

SpecMonitor == InitMonitor /\ [][NextMonitor]_vars

(***************************************************************************)
(* The batch scripts and the monitor together: every program that saves    *)
(* the output document.                                                    *)
(***************************************************************************)

InitWriters == InitBatch \/ InitMonitor

NextWriters == NextBatch \/ NextMonitor

SpecWriters == InitWriters /\ [][NextWriters]_vars

InGenerate(t) == run[t].pc # "none"

\* the output path is between the backup rename and the chmod of a run
WriteInFlight(t) == run[t].pc \in {"backed_up", "opened", "dumped"}

SaveCompleted ==
    \/ bpc = "done"
    \/ generation_count > 0 /\ \A t \in Threads : ~WriteInFlight(t)

C10_RunInProgressFlag ==
    (\E t \in Threads : InGenerate(t)) => running

\* C10 (amended): a new run never starts while another run is in flight:
\* the initial run returns before the file watcher is started and every
\* change-triggered run executes on the single dispatch thread of the
\* observer, so the main thread and the observer thread are never both
\* inside generate_config.
C10_RunsNeverOverlap ==
    ~(InGenerate("main") /\ InGenerate("observer"))

\* a change-triggered run is writing the output after the initial run has
\* completed its own write
C10_Witness ==
    /\ run["observer"].pc = "dumped"
    /\ generation_count >= 1
    /\ mpc.at \in {"start", "loop"}

(***************************************************************************)
(* final_opencode_comparison.py.  Python dicts are objects: the heap maps  *)
(* an address to the dict stored there, and a value of a dict is either a  *)
(* scalar or the address of another dict, so that a write through one      *)
(* name is seen through every other name of the same object.              *)
(***************************************************************************)

Val(s) == [t |-> "val", v |-> s]
Ref(a) == [t |-> "ref", v |-> a]

Has(d, k) == k \in DOMAIN d

RECURSIVE Deref(_, _)
\* the JSON value of the dict at address a
Deref(h, a) ==
    [k \in DOMAIN h[a] |->
        IF h[a][k].t = "ref" THEN [t |-> "dict", v |-> Deref(h, h[a][k].v)]
        ELSE h[a][k]]

schema_url == "https://opencode.sh/schema.json"

\* "_" in key
HasUnderscore(key) == key \in {"display_name", "max_tokens", "llama_v2", "gpt_4"}

\* re.sub(r'_([a-z])', lambda x: x.group(1).upper(), key): an underscore
\* followed by a digit stays
CamelCase(key) ==
    CASE key = "display_name" -> "displayName"
      [] key = "max_tokens" -> "maxTokens"
      [] key = "llama_v2" -> "llamaV2"
      [] OTHER -> key

\* key not in ["cost_per_1m_in", "cost_per_1m_out"]
CostKey(key) == key \in {"cost_per_1m_in", "cost_per_1m_out"}

\* the objects json.load builds for ultimate_opencode_config.json:
\* 1 the document, 2 its provider section, 3 the provider, 4 its options,
\* 5 its models, 6 the model, 7 the provider object of the model
ModelFieldSets ==
    { ("id" :> Val("gpt-4")) @@ ("name" :> Val("GPT-4")) @@ ("displayName" :> Val("GPT-4"))
        @@ ("maxTokens" :> Val("8192")) @@ ("provider" :> Ref(7)),
      ("id" :> Val("gpt-4")) @@ ("name" :> Val("GPT-4")) @@ ("display_name" :> Val("GPT-4"))
        @@ ("max_tokens" :> Val("8192")) @@ ("provider" :> Ref(7)),
      ("id" :> Val("gpt-4")) @@ ("name" :> Val("GPT-4")) }

OptionSets ==
    { ("apiKey" :> Val("${OPENAI_API_KEY}")) @@ ("baseURL" :> Val("https://api.openai.com/v1")),
      ("apiKey" :> Val("sk-live")) }

Opt(cond, d) == IF cond THEN d ELSE <<>>

Documents ==
    { << Opt(sch # "", "$schema" :> Val(sch)) @@ Opt(user, "username" :> Val("OpenCode AI Assistant"))
            @@ Opt(prov # "absent", "provider" :> Ref(2)),
         Opt(prov = "openai", "openai" :> Ref(3)),
         Opt(opts, "options" :> Ref(4)) @@ Opt(mods # "absent", "models" :> Ref(5)),
         options,
         Opt(mods # "absent" /\ mods # "empty", mods :> Ref(6)),
         fields,
         ("id" :> Val("openai")) @@ ("npm" :> Val("@openai/sdk")) >> :
        sch \in {"", schema_url, "https://opencode.ai/config.json"},
        user \in BOOLEAN,
        prov \in {"absent", "empty", "openai"},
        opts \in BOOLEAN,
        options \in OptionSets,
        mods \in {"absent", "empty", "gpt-4", "llama_v2"},
        fields \in ModelFieldSets }

\* the characters of the strings the documents of the model hold
Spell(s) ==
    CASE s = "${OPENAI_API_KEY}" -> <<"$", "{", "O", "P", "E", "N", "A", "I", "_", "A", "P", "I", "_", "K", "E", "Y", "}">>
      [] s = "${AI21_API_KEY}" -> <<"$", "{", "A", "I", "2", "1", "_", "A", "P", "I", "_", "K", "E", "Y", "}">>
      [] s = "sk-live" -> <<"s", "k", "-", "l", "i", "v", "e">>
      [] s = "https://api.openai.com/v1" -> <<"h", "t", "t", "p", "s", ":", "/", "/", "a", "p", "i", ".", "o", "p", "e", "n", "a", "i", ".", "c", "o", "m", "/", "v", "1">>
      [] s = "https://api.openai.com" -> <<"h", "t", "t", "p", "s", ":", "/", "/", "a", "p", "i", ".", "o", "p", "e", "n", "a", "i", ".", "c", "o", "m">>
      [] s = "openai" -> <<"o", "p", "e", "n", "a", "i">>
      [] s = "together_ai" -> <<"t", "o", "g", "e", "t", "h", "e", "r", "_", "a", "i">>
      [] s = "gpt-4" -> <<"g", "p", "t", "-", "4">>
      [] s = "llama_v2" -> <<"l", "l", "a", "m", "a", "_", "v", "2">>
      [] s = "llamaV2" -> <<"l", "l", "a", "m", "a", "V", "2">>
      [] s = "gpt-4(streaming|elite)" -> <<"g", "p", "t", "-", "4", "(", "s", "t", "r", "e", "a", "m", "i", "n", "g", "|", "e", "l", "i", "t", "e", ")">>
      [] s = "gpt 4" -> <<"g", "p", "t", " ", "4">>

UpperLetters ==
    {"A", "B", "C", "D", "E", "F", "G", "H", "I", "J", "K", "L", "M",
     "N", "O", "P", "Q", "R", "S", "T", "U", "V", "W", "X", "Y", "Z"}

LowerLetters ==
    {"a", "b", "c", "d", "e", "f", "g", "h", "i", "j", "k", "l", "m",
     "n", "o", "p", "q", "r", "s", "t", "u", "v", "w", "x", "y", "z"}

Digits == {"0", "1", "2", "3", "4", "5", "6", "7", "8", "9"}

AlphaNum == UpperLetters \cup LowerLetters \cup Digits

\* where $ matches in s: at its end, and before a newline that ends it
Ends(s) == {Len(s)} \cup (IF Len(s) > 0 /\ s[Len(s)] = "\n" THEN {Len(s) - 1} ELSE {})

AllIn(s, a, b, class) == \A i \in a..b : s[i] \in class

\* re.match(r"^\$\{[A-Z_]+\}$|^sk-[a-zA-Z0-9]+$", s), line 34
api_key_format(s) ==
    \E e \in Ends(s) :
        \/ /\ e >= 4
           /\ s[1] = "$" /\ s[2] = "{" /\ s[e] = "}"
           /\ AllIn(s, 3, e - 1, UpperLetters \cup {"_"})
        \/ /\ e >= 4
           /\ s[1] = "s" /\ s[2] = "k" /\ s[3] = "-"
           /\ AllIn(s, 4, e, AlphaNum)

\* re.match(r"^https?://.+/v1/?$", s), line 35
base_url_format(s) ==
    \E e \in Ends(s), p \in {7, 8} : \E t \in {e - 2, e - 3} :
        /\ p <= e
        /\ SubSeq(s, 1, p) \in {<<"h", "t", "t", "p", ":", "/", "/">>,
                                <<"h", "t", "t", "p", "s", ":", "/", "/">>}
        /\ t >= p + 2
        /\ SubSeq(s, t, e) \in {<<"/", "v", "1">>, <<"/", "v", "1", "/">>}
        /\ \A i \in (p + 1)..(t - 1) : s[i] # "\n"

\* re.match(r"^[a-z][a-zA-Z0-9]*$", s), line 36
provider_id_format(s) ==
    \E e \in Ends(s) : e >= 1 /\ s[1] \in LowerLetters /\ AllIn(s, 2, e, AlphaNum)

\* re.match(r"^[a-zA-Z0-9._-]+$", s), line 37
model_id_format(s) ==
    \E e \in Ends(s) : e >= 1 /\ AllIn(s, 1, e, AlphaNum \cup {".", "_", "-"})

\* validate_schema, lines 40-49
validate_schema(h, cfg) ==
    IF ~Has(h[cfg], "$schema")
    THEN [errors |-> <<[kind |-> "missing_top", provider |-> "", model |-> "", field |-> "$schema"]>>,
          warnings |-> <<>>]
    ELSE [errors |-> <<>>,
          warnings |-> IF h[cfg]["$schema"] # Val(schema_url)
                       THEN <<[kind |-> "schema_mismatch", field |-> "$schema"]>>
                       ELSE <<>>]

\* the fields of a list that a dict lacks, in the order of the list
RECURSIVE MissingFields(_, _)
MissingFields(d, fields) ==
    IF fields = <<>> THEN <<>>
    ELSE (IF Has(d, Head(fields)) THEN <<>> ELSE <<Head(fields)>>)
         \o MissingFields(d, Tail(fields))

ErrorsFor(kind, provider_id, model_id, fields) ==
    [i \in 1..Len(fields) |->
        [kind |-> kind, provider |-> provider_id, model |-> model_id, field |-> fields[i]]]

\* validate_options with a credential of the wrong format reported as an error
validate_options_strict(h, provider_id, options) ==
    [errors |-> ErrorsFor("missing_option", provider_id, "",
                          MissingFields(h[options], <<"apiKey", "baseURL">>))
                \o (IF Has(h[options], "apiKey") /\ ~api_key_format(Spell(h[options]["apiKey"].v))
                    THEN ErrorsFor("api_key_format", provider_id, "", <<"apiKey">>) ELSE <<>>),
     warnings |->
        IF Has(h[options], "baseURL") /\ ~base_url_format(Spell(h[options]["baseURL"].v))
        THEN <<[kind |-> "base_url_format", field |-> provider_id]>> ELSE <<>>]

\* validate_options, lines 78-92
validate_options(h, provider_id, options) ==
    [errors |-> ErrorsFor("missing_option", provider_id, "",
                          MissingFields(h[options], <<"apiKey", "baseURL">>)),
     warnings |->
        (IF Has(h[options], "apiKey") /\ ~api_key_format(Spell(h[options]["apiKey"].v))
         THEN <<[kind |-> "api_key_format", field |-> provider_id]>> ELSE <<>>)
        \o (IF Has(h[options], "baseURL") /\ ~base_url_format(Spell(h[options]["baseURL"].v))
            THEN <<[kind |-> "base_url_format", field |-> provider_id]>> ELSE <<>>)]

\* validate_models with an empty models map reported as an error
validate_models_strict(h, provider_id, models) ==
    [errors |-> IF DOMAIN h[models] = {}
                THEN ErrorsFor("no_models", provider_id, "", <<"models">>) ELSE <<>>,
     warnings |-> <<>>]

\* validate_models, lines 94-121, for the single model the documents hold
validate_models(h, provider_id, models) ==
    IF DOMAIN h[models] = {}
    THEN [errors |-> <<>>, warnings |-> <<[kind |-> "no_models", field |-> provider_id]>>]
    ELSE LET model_id == CHOOSE k \in DOMAIN h[models] : TRUE
             model_data == h[h[models][model_id].v]
         IN  [errors |->
                ErrorsFor("missing_model_field", provider_id, model_id,
                          MissingFields(model_data,
                              <<"id", "name", "displayName", "provider", "maxTokens">>))
                \o (IF Has(model_data, "provider")
                    THEN IF model_data["provider"].t # "ref"
                         THEN ErrorsFor("provider_not_object", provider_id, model_id, <<"provider">>)
                         ELSE ErrorsFor("missing_provider_id", provider_id, model_id,
                                  MissingFields(h[model_data["provider"].v], <<"id">>))
                    ELSE <<>>),
              warnings |->
                (IF ~model_id_format(Spell(model_id))
                 THEN <<[kind |-> "unusual_format", field |-> model_id]>> ELSE <<>>)
                \o (IF Has(model_data, "provider") /\ model_data["provider"].t = "ref"
                       /\ ~Has(h[model_data["provider"].v], "npm")
                    THEN <<[kind |-> "missing_npm", field |-> model_id]>>
                    ELSE <<>>)]

\* validate_provider_structure, lines 51-76, for the single provider the
\* documents hold
validate_provider_structure(h, providers) ==
    IF DOMAIN h[providers] = {}
    THEN [errors |-> <<[kind |-> "no_providers", provider |-> "", model |-> "", field |-> ""]>>,
          warnings |-> <<>>]
    ELSE LET provider_id == CHOOSE k \in DOMAIN h[providers] : TRUE
             provider_data == h[h[providers][provider_id].v]
             own == ErrorsFor("missing_provider_field", provider_id, "",
                              MissingFields(provider_data, <<"options", "models">>))
             o == IF Has(provider_data, "options")
                  THEN validate_options(h, provider_id, provider_data["options"].v)
                  ELSE [errors |-> <<>>, warnings |-> <<>>]
             m == IF Has(provider_data, "models")
                  THEN validate_models(h, provider_id, provider_data["models"].v)
                  ELSE [errors |-> <<>>, warnings |-> <<>>]
             id_warning == IF ~provider_id_format(Spell(provider_id))
                           THEN <<[kind |-> "provider_id_format", field |-> provider_id]>>
                           ELSE <<>>
         IN  [errors |-> own \o o.errors \o m.errors,
              warnings |-> id_warning \o o.warnings \o m.warnings]

\* validate_casing_consistency, lines 122-135: only the keys of a dict
\* whose path ends with ".models" are looked at
validate_casing_consistency(h, cfg) ==
    LET providers == IF Has(h[cfg], "provider") THEN h[h[cfg]["provider"].v] ELSE <<>>
        keys == { k \in {"gpt-4", "llama_v2", "llamaV2"} :
                    /\ HasUnderscore(k)
                    /\ ~CostKey(k)
                    /\ \E provider_id \in DOMAIN providers :
                          LET provider_data == h[providers[provider_id].v]
                          IN  /\ Has(provider_data, "models")
                              /\ Has(h[provider_data["models"].v], k) }
    IN  IF keys = {} THEN <<>>
        ELSE <<[kind |-> "snake_case", field |-> CHOOSE k \in keys : TRUE]>>

\* generate_fixes, lines 189-209: a fix for every error whose text holds
\* "missing required field" and "provider" in lower case, which are the
\* errors of validate_models, and one for every snake_case warning
RECURSIVE generate_fixes(_, _)
generate_fixes(errors, warnings) ==
    IF errors # <<>>
    THEN (IF Head(errors).kind = "missing_model_field"
          THEN <<[kind |-> "add_provider_section", field |-> ""]>> ELSE <<>>)
         \o generate_fixes(Tail(errors), warnings)
    ELSE IF warnings # <<>>
    THEN (IF Head(warnings).kind = "snake_case"
          THEN <<[kind |-> "camel_case", field |-> CamelCase(Head(warnings).field)]>> ELSE <<>>)
         \o generate_fixes(errors, Tail(warnings))
    ELSE <<>>

\* validate_configuration with valid computed from errors and warnings
validate_configuration_strict(h, cfg) ==
    LET s == validate_schema(h, cfg)
        p == IF Has(h[cfg], "provider")
             THEN validate_provider_structure(h, h[cfg]["provider"].v)
             ELSE [errors |-> <<>>, warnings |-> <<>>]
        errors == s.errors \o p.errors
        warnings == s.warnings \o p.warnings \o validate_casing_consistency(h, cfg)
    IN  [valid |-> Len(errors) = 0 /\ Len(warnings) = 0,
         errors |-> errors,
         warnings |-> warnings,
         fixes |-> generate_fixes(errors, warnings)]

\* validate_configuration, lines 211-241
validate_configuration(h, cfg) ==
    LET s == validate_schema(h, cfg)
        p == IF Has(h[cfg], "provider")
             THEN validate_provider_structure(h, h[cfg]["provider"].v)
             ELSE [errors |-> <<>>, warnings |-> <<>>]
        errors == s.errors \o p.errors
        warnings == s.warnings \o p.warnings \o validate_casing_consistency(h, cfg)
    IN  [valid |-> Len(errors) = 0,
         errors |-> errors,
         warnings |-> warnings,
         fixes |-> generate_fixes(errors, warnings)]

\* dict.copy(): a new dict object with the same items; the values that are
\* dicts are shared with the original
dict_alias(h, a) == [heap |-> h, addr |-> a]

dict_copy(h, a) == [heap |-> Append(h, h[a]), addr |-> Len(h) + 1]

\* d[k] = v on the dict at address a
setitem(h, a, k, v) == [h EXCEPT ![a] = Put(@, k, v)]

RECURSIVE fix_casing_in_dict(_, _)
RECURSIVE fix_casing_items(_, _, _, _)

\* the loop of fix_casing_in_dict over data.items(), lines 423-433
fix_casing_items(h, data, keys, fixed_data) ==
    IF keys = {} THEN [heap |-> h, dict |-> fixed_data]
    ELSE LET key == CHOOSE k \in keys : TRUE
             value == h[data][key]
             new_key == IF HasUnderscore(key) /\ ~CostKey(key) THEN CamelCase(key) ELSE key
         IN  IF value.t = "ref"
             THEN LET r == fix_casing_in_dict(h, value.v)
                  IN  fix_casing_items(r.heap, data, keys \ {key},
                                       Put(fixed_data, new_key, Ref(r.addr)))
             ELSE fix_casing_items(h, data, keys \ {key}, Put(fixed_data, new_key, value))

\* fix_casing_in_dict, lines 421-434: builds a new dict for every dict below
fix_casing_in_dict(h, data) ==
    LET r == fix_casing_items(h, data, DOMAIN h[data], <<>>)
    IN  [heap |-> Append(r.heap, r.dict), addr |-> Len(r.heap) + 1]

\* generate_fixed_configuration, lines 409-439
generate_fixed_configuration(h, cfg) ==
    LET c == dict_copy(h, cfg)
        h1 == IF ~Has(c.heap[c.addr], "$schema")
              THEN setitem(c.heap, c.addr, "$schema", Val(schema_url)) ELSE c.heap
        h2 == IF ~Has(h1[c.addr], "username")
              THEN setitem(h1, c.addr, "username", Val("OpenCode AI Assistant")) ELSE h1
    IN  IF Has(h2[c.addr], "provider")
        THEN LET r == fix_casing_in_dict(h2, h2[c.addr]["provider"].v)
             IN  [heap |-> setitem(r.heap, c.addr, "provider", Ref(r.addr)), addr |-> c.addr]
        ELSE [heap |-> h2, addr |-> c.addr]

InitValidate ==
    /\ row = NoRow
    /\ derived = NotDerived
    /\ BatchIdle
    /\ MonitorIdle
    /\ SynthIdle
    /\ PollIdle
    /\ gen_result = NoResult
    /\ fs = NoFile
    /\ heap \in Documents
    /\ vdoc = Deref(heap, 1)
    /\ vpc = "loaded"
    /\ vresult = <<>>
    /\ fixed = 0

\* main, lines 259-263: an empty document is falsy
val_load_failed ==
    /\ vpc = "loaded"
    /\ DOMAIN heap[1] = {}
    /\ vpc' = "returned"
    /\ vresult' = [rc |-> 1]
    /\ UNCHANGED <<not_val_vars, fs, heap, vdoc, fixed>>

\* main, lines 312-318: validate_configuration and compare_with_reference,
\* which only reads the two documents
val_validate ==
    /\ vpc = "loaded"
    /\ DOMAIN heap[1] # {}
    /\ vresult' = [validation_result |-> validate_configuration(heap, 1)]
    /\ vpc' = "validated"
    /\ UNCHANGED <<not_val_vars, fs, heap, vdoc, fixed>>

\* main, line 373
val_generate_fixed ==
    /\ vpc = "validated"
    /\ LET r == generate_fixed_configuration(heap, 1)
       IN  heap' = r.heap /\ fixed' = r.addr
    /\ vpc' = "fixed"
    /\ UNCHANGED <<not_val_vars, fs, vdoc, vresult>>

\* main, lines 375-378: the fixed configuration is saved to fixed_path
val_save ==
    /\ vpc = "fixed"
    /\ \E m \in CreateModes : fs' = json_dump(open_w(fs, m), Deref(heap, fixed))
    /\ vpc' = "saved"
    /\ UNCHANGED <<not_val_vars, heap, vdoc, vresult, fixed>>

\* main, lines 386-406: the fixed configuration is validated and the exit
\* code follows from it
val_validate_fixed ==
    /\ vpc = "saved"
    /\ LET fixed_validation == validate_configuration(heap, fixed)
       IN  vresult' = [validation_result |-> vresult.validation_result,
                       fixed_validation |-> fixed_validation,
                       rc |-> IF fixed_validation.valid THEN 0 ELSE 1]
    /\ vpc' = "returned"
    /\ UNCHANGED <<not_val_vars, fs, heap, vdoc, fixed>>

NextValidate ==
    \/ val_load_failed
    \/ val_validate
    \/ val_generate_fixed
    \/ val_save
    \/ val_validate_fixed

SpecValidate == InitValidate /\ [][NextValidate]_vars

\* C11: once the validator has been given the document, and after the fixes
\* and the fixed configuration have been computed from it, the document is
\* the one that was loaded: no dict of it has been written to.
C11_ValidatorDoesNotMutate ==
    vpc \in {"validated", "fixed", "saved", "returned"} => Deref(heap, 1) = vdoc

\* the run has ended for a document without $schema whose model key is in
\* snake_case: the fixed configuration differs from the document in both
C11_Witness ==
    /\ vpc = "returned"
    /\ fixed # 0
    /\ ~Has(vdoc, "$schema")
    /\ Has(heap[fixed], "$schema")
    /\ \E a \in 1..Len(heap) : Has(heap[a], "llamaV2")
    /\ vresult.validation_result.fixes # <<>>

(***************************************************************************)
(* scripts/export_opencode_config.py, SecureConfigExporter.generate_config, *)
(* and repeated calls of a generator on the input it was constructed with.  *)
(***************************************************************************)

MaxProviders == 2
MaxTick == 2

\* provider_env_map, lines 180-194
exp_provider_env_map == [cerebras |-> "ApiKey_Cerebras", deepseek |-> "ApiKey_DeepSeek"]

\* provider_name.replace("_", " ").title()
Title(name) ==
    CASE name = "cerebras" -> "Cerebras"
      [] name = "openai" -> "Openai"
      [] OTHER -> name

ExpModels ==
    [model_id : {"foo"}, name : {"Foo"}, verified : BOOLEAN, overall : {60, 80}]

ExpProviders ==
    [name : {"cerebras", "openai"},
     endpoint : {"https://api.example.com/v1"},
     models : {<<>>} \cup { <<m>> : m \in ExpModels }]

VerificationData ==
    { [providers |-> ps] :
        ps \in UNION { [1..n -> ExpProviders] : n \in 0..MaxProviders } }

ExpApiKeys == { <<>>, [ApiKey_Cerebras |-> "sk-live"] }

\* the readings of datetime.now() of one run: they never go back
Readings(n, from) ==
    { t \in [1..n -> from..MaxTick] : \A i \in 1..(n - 1) : t[i] <= t[i + 1] }

exp_verified(m) == m.verified

\* the provider entry, lines 296-308
exp_provider_entry(provider, api_keys, now) ==
    LET env_key == environ_get(exp_provider_env_map, provider.name, "")
        api_key == environ_get(api_keys, env_key, "NOT_FOUND")
    IN  [name |-> provider.name,
         display_name |-> Title(provider.name),
         endpoint |-> provider.endpoint,
         api_key |-> api_key,
         api_key_available |-> api_key # "NOT_FOUND",
         enabled |-> api_key # "NOT_FOUND",
         verified_models |-> Len(SelectSeq(provider.models, exp_verified)),
         total_models |-> Len(provider.models),
         health_status |-> IF \E i \in 1..Len(provider.models) : provider.models[i].verified
                           THEN "healthy" ELSE "degraded",
         last_verified |-> now]

\* the model entry, lines 318-345
exp_model_entry(provider, api_keys, model) ==
    LET env_key == environ_get(exp_provider_env_map, provider.name, "")
        api_key == environ_get(api_keys, env_key, "NOT_FOUND")
    IN  [id |-> model.model_id,
         name |-> model.name,
         provider |-> provider.name,
         provider_endpoint |-> provider.endpoint,
         verified |-> model.verified,
         enabled |-> model.verified,
         api_key |-> IF model.verified THEN api_key ELSE "None",
         scores |-> [overall |-> model.overall]]

RECURSIVE exp_model_entries(_, _)
\* config["models"] after the loop over the providers, lines 291-347
exp_model_entries(providers, api_keys) ==
    IF providers = <<>> THEN <<>>
    ELSE LET provider == Head(providers)
         IN  [i \in 1..Len(provider.models) |->
                exp_model_entry(provider, api_keys, provider.models[i])]
             \o exp_model_entries(Tail(providers), api_keys)

exp_high_performance(entry) == entry.verified /\ entry.scores.overall >= 75

\* generate_config, lines 175-421, with the readings of the clock it makes
exp_generate_config(verification_data, api_keys, gitignore_verified, times) ==
    LET providers == verification_data.providers
        models == exp_model_entries(providers, api_keys)
        verified == SelectSeq(models, exp_verified)
        high == SelectSeq(models, exp_high_performance)
        total_score == SumOver([i \in 1..Len(verified) |-> verified[i].scores.overall],
                               1..Len(verified))
    IN  [version |-> "2.0-ultimate",
         generated_at |-> times[1],
         providers |-> [i \in 1..Len(providers) |->
                          exp_provider_entry(providers[i], api_keys, times[i + 1])],
         models |-> models,
         model_groups |-> IF high = <<>> THEN <<>>
                          ELSE [high_performance |-> [i \in 1..Len(high) |-> high[i].id]],
         security |-> [gitignore_verified |-> gitignore_verified],
         metadata |-> [total_providers |-> Len(providers),
                       total_models |-> Len(models),
                       verified_models |-> Len(verified),
                       high_performance_models |-> Len(high),
                       average_score_x10 |->
                           (10 * total_score) \div (IF Len(verified) > 1 THEN Len(verified) ELSE 1)]]

ExpInputs ==
    [verification_data : VerificationData, api_keys : ExpApiKeys, gitignore_verified : BOOLEAN]

OptInputs ==
    [log : { [exists |-> TRUE, lines |-> ls, mtime |-> 1] :
               ls \in UNION { [1..n -> LogLines] : n \in 0..MaxLogLines } },
     env : MonEnvironments,
     file_keys : DotEnvFiles]

InitSynth ==
    /\ row = NoRow
    /\ derived = NotDerived
    /\ BatchIdle
    /\ MonitorIdle
    /\ ValidatorIdle
    /\ PollIdle
    /\ gen_result = NoResult
    /\ fs = NoFile
    /\ sgen \in {"exp", "opt"}
    /\ sinput \in IF sgen = "exp" THEN ExpInputs ELSE OptInputs
    /\ sdocs = <<>>
    /\ sclock = 0

\* exporter.generate_config() on the loaded verification results
exp_run ==
    /\ sgen = "exp"
    /\ Len(sdocs) < 2
    /\ \E times \in Readings(Len(sinput.verification_data.providers) + 1, sclock) :
        /\ sdocs' = Append(sdocs, exp_generate_config(sinput.verification_data, sinput.api_keys,
                                                      sinput.gitignore_verified, times))
        /\ sclock' = times[Len(times)]
    /\ UNCHANGED <<not_syn_vars, sgen, sinput>>

\* generator.generate_config(parser.parse_log_file()) on the log
opt_run ==
    /\ sgen = "opt"
    /\ Len(sdocs) < 2
    /\ \E now \in sclock..MaxTick :
        /\ sdocs' = Append(sdocs, opt_generate_config(opt_parse_log_file(sinput.log),
                                                      sinput.env, sinput.file_keys, now))
        /\ sclock' = now
    /\ UNCHANGED <<not_syn_vars, sgen, sinput>>

NextSynth == exp_run \/ opt_run

SpecSynth == InitSynth /\ [][NextSynth]_vars

\* the document without the timestamp of its generation, at the top level
\* or in its metadata
StripTimestamp(document) ==
    [k \in DOMAIN document \ {"generated_at"} |->
        IF k = "metadata"
        THEN [j \in DOMAIN document[k] \ {"generated_at"} |-> document[k][j]]
        ELSE document[k]]

\* C12: two runs of a generator on the same input return documents that are
\* equal once the single timestamp field of the generation is left out.
C12_RepeatedSynthesisIdentical ==
    Len(sdocs) = 2 => StripTimestamp(sdocs[1]) = StripTimestamp(sdocs[2])

\* the part of C12 that holds: generate_config of
\* generate_ultimate_opencode_optimized differs between runs in
\* metadata.generated_at only
OptRepeatedSynthesisIdentical ==
    (sgen = "opt" /\ Len(sdocs) = 2) => StripTimestamp(sdocs[1]) = StripTimestamp(sdocs[2])

(***************************************************************************)
(* generate_ultimate_opencode_from_challenge.py, and the pipelines run      *)
(* again on the input of their first run.                                   *)
(***************************************************************************)

\* provider_env_mapping, lines 65-96
fc_api_key_env(provider) == IF provider = "openai" THEN "OPENAI_API_KEY" ELSE "CEREBRAS_API_KEY"

\* provider_base_urls, lines 98-127
fc_base_url(provider) ==
    IF provider = "openai" THEN "https://api.openai.com/v1" ELSE "https://api.cerebras.ai/v1"

\* ProviderInfo(...), lines 172-179 and 197-203
fc_new_provider(provider, registered) ==
    [id |-> provider, api_key_env |-> fc_api_key_env(provider),
     base_url |-> fc_base_url(provider), models |-> <<>>, registered |-> registered,
     verified |-> FALSE]

\* _extract_provider_registrations and _extract_model_discoveries, lines
\* 160-205: the count of a discovery is logged and dropped
RECURSIVE fc_extract(_, _, _)
fc_extract(providers, lines, kind) ==
    IF lines = <<>> THEN providers
    ELSE LET l == Head(lines)
             provider == Lower(l.provider)
             next == IF l.kind # kind THEN providers
                     ELSE IF provider \notin DOMAIN providers
                          THEN Put(providers, provider,
                                   fc_new_provider(provider, kind = "registered"))
                          ELSE IF kind = "registered"
                               THEN Put(providers, provider,
                                        [providers[provider] EXCEPT !.registered = TRUE])
                               ELSE providers
         IN  fc_extract(next, Tail(lines), kind)

\* ChallengeLogParser.parse_log_file, lines 129-158
fc_parse_log_file(lg) ==
    IF ~lg.exists THEN <<>>
    ELSE [providers |-> fc_extract(fc_extract(<<>>, lg.lines, "registered"), lg.lines, "found")]

\* _get_default_models, lines 318-369
fc_get_default_models(provider_id) ==
    IF provider_id = "openai"
    THEN [m \in {"gpt-4", "gpt-4-turbo"} |-> [name |-> m, verified |-> FALSE]]
    ELSE <<>>

\* _generate_provider_config, lines 282-316
fc_generate_provider_config(provider_info, env, file_keys) ==
    LET found == opt_get_api_key(env, file_keys, provider_info.api_key_env)
        api_key == IF found = "" THEN "${" \o provider_info.api_key_env \o "}" ELSE found
    IN  [options |-> [apiKey |-> api_key, baseURL |-> provider_info.base_url],
         models |-> IF DOMAIN provider_info.models # {} THEN provider_info.models
                    ELSE fc_get_default_models(provider_info.id)]

\* OpenCodeConfigGenerator.generate_config, lines 256-280
fc_generate_config(challenge_data, env, file_keys, now) ==
    LET providers == challenge_data.providers
    IN  ("$schema" :> "https://opencode.sh/schema.json")
        @@ [username |-> "OpenCode AI Assistant",
            provider |-> [q \in DOMAIN providers |->
                            fc_generate_provider_config(providers[q], env, file_keys)],
            metadata |-> [generated_at |-> now,
                          total_providers |-> Cardinality(DOMAIN providers),
                          total_models |-> SumOver([q \in DOMAIN providers |->
                                                      Cardinality(DOMAIN providers[q].models)],
                                                   DOMAIN providers)]]

\* validate_opencode_config, lines 405-434
fc_validate_opencode_config(document) ==
    /\ {"$schema", "username", "provider"} \subseteq DOMAIN document
    /\ \A q \in DOMAIN document.provider :
        /\ "options" \in DOMAIN document.provider[q]
        /\ "models" \in DOMAIN document.provider[q]

RerunInputs ==
    [log : {NoLog} \cup { [exists |-> TRUE, lines |-> ls, mtime |-> 1] :
                            ls \in UNION { [1..n -> LogLines] : n \in 0..MaxLogLines } },
     env : MonEnvironments,
     file_keys : DotEnvFiles,
     validate : BOOLEAN]

InitRerun ==
    /\ row = NoRow
    /\ derived = NotDerived
    /\ BatchIdle
    /\ MonitorIdle
    /\ ValidatorIdle
    /\ PollIdle
    /\ gen_result = NoResult
    /\ fs \in InitialFiles
    /\ sgen \in {"fc", "mon"}
    /\ sinput \in RerunInputs
    /\ sdocs = <<>>
    /\ sclock = 0

\* one run of generate_ultimate_opencode_from_challenge.py without --monitor:
\* generate_config of main, lines 456-496; sdocs records the file it left
fc_main ==
    /\ sgen = "fc"
    /\ Len(sdocs) < 2
    /\ LET challenge_data == fc_parse_log_file(sinput.log)
       IN  IF DOMAIN challenge_data = {}
           THEN UNCHANGED <<fs, sclock>>
           ELSE \E now \in sclock..MaxTick, m \in CreateModes :
                  LET document == fc_generate_config(challenge_data, sinput.env,
                                                     sinput.file_keys, now)
                  IN  /\ sclock' = now
                      /\ IF sinput.validate /\ ~fc_validate_opencode_config(document)
                         THEN UNCHANGED fs
                         ELSE fs' = chmod_600(json_dump(open_w(fs, m), document))
    /\ sdocs' = Append(sdocs, fs')
    /\ UNCHANGED <<derive_vars, batch_vars, mon_vars, val_vars, poll_vars, gen_result, sgen,
                   sinput>>

\* one run of monitor_ultimate_challenge.py up to the end of the initial
\* generation: UltimateChallengeMonitor.generate_config, lines 131-192
mon_main ==
    /\ sgen = "mon"
    /\ Len(sdocs) < 2
    /\ LET challenge_data == opt_parse_log_file(sinput.log)
       IN  IF DOMAIN challenge_data = {}
           THEN UNCHANGED <<fs, sclock, backups>>
           ELSE \E now \in sclock..MaxTick, m \in CreateModes, renamed \in BOOLEAN :
                \E later \in now..MaxTick :
                  LET document == opt_generate_config(challenge_data, sinput.env,
                                                      sinput.file_keys, now)
                      backed_up == fs.exists /\ renamed
                  IN  IF ~opt_validate_opencode_config(document)
                      THEN sclock' = now /\ UNCHANGED <<fs, backups>>
                      ELSE /\ sclock' = IF fs.exists THEN later ELSE now
                           /\ backups' = IF backed_up THEN Put(backups, later, fs) ELSE backups
                           /\ fs' = chmod_600(json_dump(
                                        open_w(IF backed_up THEN NoFile ELSE fs, m), document))
    /\ sdocs' = Append(sdocs, fs')
    /\ UNCHANGED <<derive_vars, batch_vars, val_vars, poll_vars, gen_result, sgen, sinput,
                   log, dotenv, clock, running, observer, handlers, generation_count, last_modified, queue,
                   mpc, opc, run>>

NextRerun == fc_main \/ mon_main

SpecRerun == InitRerun /\ [][NextRerun]_vars

\* the file with the generation timestamp of its documents left out
StripFile(f) ==
    [f EXCEPT !.content = [i \in 1..Len(f.content) |-> StripTimestamp(f.content[i])]]

\* C13: the file the second run on unchanged input leaves at the output
\* path is the file the first run left, in content and mode, the generation
\* timestamp excluded.
C13_SecondRunLeavesSameFile ==
    Len(sdocs) = 2 => StripFile(sdocs[2]) = StripFile(sdocs[1])

\* both runs wrote a document, at different times
C13_Witness ==
    /\ Len(sdocs) = 2
    /\ sdocs[1].exists /\ sdocs[2].exists
    /\ Len(sdocs[1].content) = 1 /\ Len(sdocs[2].content) = 1
    /\ "metadata" \in DOMAIN sdocs[1].content[1]
    /\ "metadata" \in DOMAIN sdocs[2].content[1]
    /\ sdocs[1].content[1].metadata.generated_at # sdocs[2].content[1].metadata.generated_at
    /\ DOMAIN sdocs[2].content[1].provider # {}

(***************************************************************************)
(* The size pollers: RealTimeLogMonitor of                                 *)
(* generate_ultimate_opencode_enhanced.py, driven through start() and      *)
(* stop(), and monitor_log_file of                                         *)
(* generate_ultimate_opencode_from_challenge.py, driven by main --monitor. *)
(* The size of the log is the number of its lines.                         *)
(***************************************************************************)

\* bound: the threads start() may create
MaxStarts == 2

\* bound: the calls of start() and stop() a behaviour holds
MaxCalls == 3

\* os.path.getsize(log_file)
getsize(lg) == Len(lg.lines)

InitPoll ==
    /\ row = NoRow
    /\ derived = NotDerived
    /\ db = <<>>
    /\ script = "none"
    /\ bpc = "idle"
    /\ config = NoConfig
    /\ raised = ""
    /\ ValidatorIdle
    /\ PollIdle
    /\ gen_result = NoResult
    /\ sgen \in {"enh", "fc"}
    /\ environ \in MonEnvironments
    /\ dotenv \in DotEnvFiles
    /\ sinput \in [validate : BOOLEAN]
    /\ sdocs = <<>>
    /\ sclock = 0
    /\ fs \in InitialFiles
    /\ log \in {NoLog} \cup { [exists |-> TRUE, lines |-> ls, mtime |-> 1] :
                                ls \in {<<>>} \cup { <<l>> : l \in LogLines } }
    /\ clock = 0
    /\ backups = <<>>
    /\ running = FALSE
    /\ observer = "none"
    /\ handlers = FALSE
    /\ generation_count = 0
    /\ last_modified = 0
    /\ queue = <<>>
    /\ mpc = [at |-> "idle", step |-> 0]
    /\ opc = "idle"
    /\ run = [t \in Threads |-> NoRun]

\* what the poll actions leave alone
poll_frame == <<derive_vars, batch_vars, val_vars, syn_vars, gen_result, log, dotenv, backups, running,
                observer, handlers, generation_count, last_modified, queue, mpc, opc, run>>

\* RealTimeLogMonitor.start, lines 639-647
enh_start ==
    /\ sgen = "enh"
    /\ caller.pc = "idle"
    /\ caller.calls < MaxCalls
    /\ caller' = [caller EXCEPT !.calls = @ + 1]
    /\ IF rtm.running
       THEN UNCHANGED <<rtm, loops>>
       ELSE /\ Len(loops) < MaxStarts
            /\ rtm' = [rtm EXCEPT !.running = TRUE, !.thread = Len(loops) + 1]
            /\ loops' = Append(loops, [pc |-> "begin", seen |-> 0])
    /\ UNCHANGED <<poll_frame, fs, clock, poller, detected, reruns>>

\* RealTimeLogMonitor.stop, lines 649-652, up to the call of join
enh_stop ==
    /\ sgen = "enh"
    /\ caller.pc = "idle"
    /\ caller.calls < MaxCalls
    /\ rtm' = [rtm EXCEPT !.running = FALSE]
    /\ caller' = [pc |-> IF rtm.thread # 0 THEN "join" ELSE "idle",
                  calls |-> caller.calls + 1]
    /\ UNCHANGED <<poll_frame, fs, clock, loops, poller, detected, reruns>>

\* stop, lines 652-654: join(timeout=1.0) returns when the thread has ended
\* or when the second is over, whichever comes first; the thread sleeps
\* interval seconds (5 by default) between two checks
enh_join ==
    /\ caller.pc = "join"
    /\ caller' = [caller EXCEPT !.pc = "idle"]
    /\ UNCHANGED <<poll_frame, fs, clock, rtm, loops, poller, detected, reruns>>

\* _monitor_loop, lines 658-660: the initial check
enh_loop_begin(t) ==
    /\ loops[t].pc = "begin"
    /\ rtm' = IF log.exists THEN [rtm EXCEPT !.last_size = getsize(log)] ELSE rtm
    /\ loops' = [loops EXCEPT ![t].pc = "check"]
    /\ UNCHANGED <<poll_frame, fs, clock, caller, poller, detected, reruns>>

\* _monitor_loop, line 662: while self.running; seen records the number of
\* start() calls that had created a thread when the loop found the flag set
enh_loop_check(t) ==
    /\ loops[t].pc = "check"
    /\ loops' = [loops EXCEPT ![t] = IF rtm.running
                                     THEN [pc |-> "body", seen |-> Len(loops)]
                                     ELSE [pc |-> "done", seen |-> @.seen]]
    /\ UNCHANGED <<poll_frame, fs, clock, rtm, caller, poller, detected, reruns>>

\* _monitor_loop, lines 663-677: one comparison of the size with last_size;
\* a change of size puts True on update_queue, which nothing reads
enh_loop_body(t) ==
    /\ loops[t].pc = "body"
    /\ LET current_size == getsize(log)
       IN  IF log.exists /\ current_size # rtm.last_size
           THEN /\ rtm' = [rtm EXCEPT !.update_queue = @ + 1, !.last_size = current_size]
                /\ detected' = IF current_size > rtm.last_size THEN detected + 1
                               ELSE detected
           ELSE UNCHANGED <<rtm, detected>>
    /\ loops' = [loops EXCEPT ![t].pc = "sleep"]
    /\ UNCHANGED <<poll_frame, fs, clock, caller, poller, reruns>>

\* _monitor_loop, line 679: time.sleep(self.interval) is over
enh_loop_wake(t) ==
    /\ loops[t].pc = "sleep"
    /\ loops' = [loops EXCEPT ![t].pc = "check"]
    /\ UNCHANGED <<poll_frame, fs, clock, rtm, caller, poller, detected, reruns>>

enh_loop_step ==
    \E t \in 1..Len(loops) :
        \/ enh_loop_begin(t)
        \/ enh_loop_check(t)
        \/ enh_loop_body(t)
        \/ enh_loop_wake(t)

\* generate_config of main of generate_ultimate_opencode_from_challenge.py,
\* lines 456-496, up to stage cut: "open" ends it after open(output, 'w'),
\* "dump" after the with block, "all" runs it to its return
fc_callback(f, now, create_mode, cut) ==
    LET challenge_data == fc_parse_log_file(log)
        document == fc_generate_config(challenge_data, environ, dotenv, now)
    IN  IF DOMAIN challenge_data = {} THEN [ok |-> FALSE, file |-> f]
        ELSE IF sinput.validate /\ ~fc_validate_opencode_config(document)
             THEN [ok |-> FALSE, file |-> f]
        ELSE IF cut = "open" THEN [ok |-> FALSE, file |-> open_w(f, create_mode)]
        ELSE IF cut = "dump"
             THEN [ok |-> FALSE, file |-> json_dump(open_w(f, create_mode), document)]
        ELSE [ok |-> TRUE,
              file |-> chmod_600(json_dump(open_w(f, create_mode), document))]

\* main, lines 498-503: the initial generation; main returns 1 when it fails
fc_initial ==
    /\ sgen = "fc"
    /\ poller.pc = "idle"
    /\ \E now \in clock..MaxClock, m \in CreateModes :
         LET r == fc_callback(fs, now, m, "all")
         IN  /\ fs' = r.file
             /\ clock' = now
             /\ poller' = [poller EXCEPT !.pc = IF r.ok THEN "monitor" ELSE "returned"]
    /\ UNCHANGED <<poll_frame, rtm, loops, caller, detected, reruns>>

\* monitor_log_file, lines 375-379
fc_monitor_begin ==
    /\ poller.pc = "monitor"
    /\ poller' = IF log.exists THEN [pc |-> "sleep", last_size |-> getsize(log)]
                 ELSE [poller EXCEPT !.pc = "returned"]
    /\ UNCHANGED <<poll_frame, fs, clock, rtm, loops, caller, detected, reruns>>

\* monitor_log_file, lines 383-399: one round of the loop after the sleep;
\* a change of size calls the callback, which runs generate_config on the
\* whole log
fc_tick ==
    /\ poller.pc = "sleep"
    /\ LET current_size == getsize(log)
       IN  IF log.exists /\ current_size # poller.last_size
           THEN \E now \in clock..MaxClock, m \in CreateModes :
                  /\ fs' = fc_callback(fs, now, m, "all").file
                  /\ clock' = now
                  /\ reruns' = reruns + 1
                  /\ detected' = IF current_size > poller.last_size THEN detected + 1
                                 ELSE detected
                  /\ poller' = [poller EXCEPT !.last_size = current_size]
           ELSE UNCHANGED <<fs, clock, reruns, detected, poller>>
    /\ UNCHANGED <<poll_frame, rtm, loops, caller>>

\* monitor_log_file, lines 400-401: KeyboardInterrupt, the only way out of
\* while True, raised during the sleep
fc_interrupt ==
    /\ poller.pc = "sleep"
    /\ poller' = [poller EXCEPT !.pc = "returned"]
    /\ UNCHANGED <<poll_frame, fs, clock, rtm, loops, caller, detected, reruns>>

\* KeyboardInterrupt raised while the callback runs: generate_config catches
\* Exception only (line 494), so the run ends where it is
fc_tick_interrupted ==
    /\ poller.pc = "sleep"
    /\ log.exists
    /\ getsize(log) > poller.last_size
    /\ \E now \in clock..MaxClock, m \in CreateModes, cut \in {"open", "dump"} :
         /\ fs' = fc_callback(fs, now, m, cut).file
         /\ clock' = now
    /\ reruns' = reruns + 1
    /\ detected' = detected + 1
    /\ poller' = [poller EXCEPT !.pc = "returned"]
    /\ UNCHANGED <<poll_frame, rtm, loops, caller>>

NextPoll ==
    \/ log_append
    \/ enh_start
    \/ enh_stop
    \/ enh_join
    \/ enh_loop_step
    \/ fc_initial
    \/ fc_monitor_begin
    \/ fc_tick
    \/ fc_interrupt
    \/ fc_tick_interrupted

SpecPoll == InitPoll /\ [][NextPoll]_vars

\* a started thread runs, and the sleep of monitor_log_file ends
SpecPollFair ==
    SpecPoll /\ WF_vars(enh_loop_step) /\ WF_vars(fc_tick \/ fc_tick_interrupted)

\* C16: every growth of the log that a poller detects is followed by a run
\* of the pipeline started by that poller: the n-th detection leads to the
\* n-th call of the callback.
C16_GrowthLeadsToRerun ==
    \A n \in 1..(MaxLogLines + 1) : (detected >= n) ~> (reruns >= n)

\* the same for monitor_log_file alone
FcGrowthLeadsToRerun ==
    \A n \in 1..(MaxLogLines + 1) : (sgen = "fc" /\ detected >= n) ~> (reruns >= n)

\* C17: once stop has been requested, no new run of generate_config is
\* started: from the moment stop() has cleared the running flag, the observer
\* thread does not enter the callback.
C17_NoRunAfterStop ==
    [][mpc.at \in {"stop_observer", "join", "exited"} => ~(opc = "idle" /\ opc' = "busy")]_vars

\* RealTimeLogMonitor alone: a loop that finds the flag cleared at its check
\* ends there, and no callback is called while the flag is cleared
EnhStopEndsLoop ==
    [][/\ (sgen = "enh" /\ ~rtm.running) => reruns' = reruns
       /\ \A t \in 1..Len(loops) :
            (loops[t].pc = "check" /\ ~rtm.running /\ loops'[t] # loops[t])
                => loops'[t].pc = "done"]_vars

\* a loop is active when it is past its check and found the flag set after
\* the latest start() that created a thread
ActiveLoops ==
    { t \in 1..Len(loops) : loops[t].pc \in {"body", "sleep"} /\ loops[t].seen = Len(loops) }

\* C18: whatever start() and stop() calls were made, at most one
\* monitoring loop is active.
C18_AtMostOneLoop == Cardinality(ActiveLoops) <= 1

\* start() while the flag is set creates no thread
StartWhileRunningStartsNothing ==
    [][rtm.running => Len(loops') = Len(loops)]_vars

\* C19: no step of a run takes a previous document out of the output file
\* unless a backup file holds that content once the step is done.
C19_BackupBeforeOverwrite ==
    [][(fs.exists /\ fs.content # <<>> /\ fs'.content # fs.content)
          => \E k \in DOMAIN backups' : backups'[k].content = fs.content]_vars

(***************************************************************************)
(* UltimateChallengeMonitor.generate_config with calls that raise: every   *)
(* statement of its try block is under the except of lines 190-192, which  *)
(* logs the exception and returns False.                                   *)
(***************************************************************************)

\* bound: the calls of generate_config a behaviour holds
MaxGenerations == 2

\* the statement of generate_config that raises: none, generate (the import
\* or generator.generate_config, lines 137-155), open (line 172), dump
\* (line 173, from inside the with block) or chmod (line 176)
Raises == {"none", "generate", "open", "dump", "chmod"}

\* generate_config, lines 131-192: the value it returns, the output file and
\* the backups it leaves; renamed tells whether os.rename succeeded
mon_generate_config(f, bk, now, later, create_mode, renamed, raises) ==
    LET challenge_data == opt_parse_log_file(log)
        document == opt_generate_config(challenge_data, environ, dotenv, now)
        backed_up == f.exists /\ renamed
        kept == IF backed_up THEN NoFile ELSE f
        after == IF backed_up THEN Put(bk, later, f) ELSE bk
        opened == open_w(kept, create_mode)
        Out(r, c, file, b) == [returned |-> r, cause |-> c, file |-> file, backups |-> b]
    IN  IF DOMAIN challenge_data = {} THEN Out("False", "no_data", f, bk)
        ELSE IF raises = "generate" THEN Out("False", "generate", f, bk)
        ELSE IF ~opt_validate_opencode_config(document) THEN Out("False", "invalid", f, bk)
        ELSE IF raises = "open" THEN Out("False", "open", kept, after)
        ELSE IF raises = "dump" THEN Out("False", "dump", opened, after)
        ELSE IF raises = "chmod"
             THEN Out("False", "chmod", json_dump(opened, document), after)
        ELSE Out("True", "", chmod_600(json_dump(opened, document)), after)

InitGen ==
    /\ row = NoRow
    /\ derived = NotDerived
    /\ db = <<>>
    /\ script = "none"
    /\ bpc = "idle"
    /\ config = NoConfig
    /\ raised = ""
    /\ ValidatorIdle
    /\ SynthIdle
    /\ PollIdle
    /\ gen_result = NoResult
    /\ environ \in MonEnvironments
    /\ dotenv \in DotEnvFiles
    /\ fs \in InitialFiles
    /\ log \in {NoLog, [exists |-> TRUE, lines |-> <<>>, mtime |-> 1]}
    /\ clock = 0
    /\ backups = <<>>
    /\ running = FALSE
    /\ observer = "none"
    /\ handlers = FALSE
    /\ generation_count = 0
    /\ last_modified = 0
    /\ queue = <<>>
    /\ mpc = [at |-> "idle", step |-> 0]
    /\ opc = "idle"
    /\ run = [t \in Threads |-> NoRun]

\* one call of generate_config, from start() or from the file watcher
gen_call ==
    /\ gen_result.calls < MaxGenerations
    /\ \E now \in clock..MaxClock, m \in CreateModes, renamed \in BOOLEAN, raises \in Raises :
       \E later \in now..MaxClock :
         LET out == mon_generate_config(fs, backups, now, later, m, renamed, raises)
         IN  /\ gen_result' = [returned |-> out.returned, cause |-> out.cause, before |-> fs,
                                calls |-> gen_result.calls + 1]
             /\ fs' = out.file
             /\ backups' = out.backups
             /\ clock' = IF out.cause = "no_data" THEN clock
                         ELSE IF out.backups # backups THEN later ELSE now
             /\ generation_count' = IF out.returned = "True" THEN generation_count + 1
                                    ELSE generation_count
    /\ UNCHANGED <<derive_vars, batch_vars, val_vars, syn_vars, poll_vars, log, dotenv, running,
                   observer, handlers, last_modified, queue, mpc, opc, run>>

NextGen == log_append \/ gen_call

SpecGen == InitGen /\ [][NextGen]_vars

\* C20: when the last call of generate_config found a file at the output
\* path and returned False, the path holds that file, unchanged in existence,
\* content and mode.
C20_FalseLeavesFileUnchanged ==
    (gen_result.returned = "False" /\ gen_result.before.exists) => fs = gen_result.before

\* the same for the returns that precede the save: no data extracted,
\* validation failed, or an exception raised before the backup
FailureBeforeSaveLeavesFile ==
    (gen_result.returned = "False" /\ gen_result.cause \in {"no_data", "generate", "invalid"})
        => fs = gen_result.before

(***************************************************************************)
(* The output file while it is being written.                              *)
(***************************************************************************)

\* the key values the environments and .env files of the model hold
Secrets == {"sk-live", "sk-file"}

\* the file holds a document with a resolved key under some provider
CredentialBearing(f) ==
    \E i \in 1..Len(f.content) :
        /\ "provider" \in DOMAIN f.content[i]
        /\ \E q \in DOMAIN f.content[i].provider :
             /\ "options" \in DOMAIN f.content[i].provider[q]
             /\ "apiKey" \in DOMAIN f.content[i].provider[q].options
             /\ f.content[i].provider[q].options.apiKey \in Secrets

\* C21: at every point of a run of the monitor, a file at the output path
\* that holds a resolved key has mode 0600.
C21_NoBroadModeWithCredentials ==
    CredentialBearing(fs) => fs.mode = "0o600"

(***************************************************************************)
(* The validators of the repository applied to one loaded document:        *)
(* OpenCodeValidator of final_opencode_comparison.py, validate_config of   *)
(* scripts/validate_opencode_config.py (sv_) and validate_opencode_config  *)
(* of generate_ultimate_opencode_optimized.py.                             *)
(***************************************************************************)

RuleOptionSets ==
    { ("apiKey" :> Val("${OPENAI_API_KEY}")) @@ ("baseURL" :> Val("https://api.openai.com/v1")),
      ("apiKey" :> Val("${AI21_API_KEY}")) @@ ("baseURL" :> Val("https://api.openai.com/v1")),
      ("apiKey" :> Val("sk-live")) @@ ("baseURL" :> Val("https://api.openai.com")),
      ("apiKey" :> Val("sk-live")) }

\* the documents of Documents, with more provider ids, credentials and
\* model keys, and with a models key at top level
RuleDocuments ==
    { << Opt(sch # "", "$schema" :> Val(sch)) @@ Opt(user, "username" :> Val("OpenCode AI Assistant"))
            @@ Opt(prov # "absent", "provider" :> Ref(2))
            @@ Opt(top, "models" :> Val("gpt-4")),
         Opt(prov \notin {"absent", "empty"}, prov :> Ref(3)),
         Opt(opts, "options" :> Ref(4)) @@ Opt(mods # "absent", "models" :> Ref(5)),
         options,
         Opt(mods # "absent" /\ mods # "empty", mods :> Ref(6)),
         fields,
         ("id" :> Val("openai")) @@ ("npm" :> Val("@openai/sdk")) >> :
        sch \in {"", schema_url, "https://opencode.ai/config.json"},
        user \in BOOLEAN,
        prov \in {"absent", "empty", "openai", "together_ai"},
        top \in BOOLEAN,
        opts \in BOOLEAN,
        options \in RuleOptionSets,
        mods \in {"absent", "empty", "gpt-4", "llama_v2", "gpt-4(streaming|elite)", "gpt 4"},
        fields \in ModelFieldSets }

RECURSIVE Plain(_, _)
\* the value json.load returns for the dict at address a
Plain(h, a) ==
    [k \in DOMAIN h[a] |-> IF h[a][k].t = "ref" THEN Plain(h, h[a][k].v) ELSE h[a][k].v]

\* validate_opencode_config of generate_ultimate_opencode_optimized.py,
\* lines 443-472: the errors it logs, for documents of at most one provider
opt_validate_errors(document) ==
    LET missing == MissingFields(document, <<"$schema", "username", "provider">>)
    IN  IF missing # <<>> THEN <<[kind |-> "missing_top", field |-> Head(missing)]>>
        ELSE IF DOMAIN document.provider = {} THEN <<>>
        ELSE LET provider_id == CHOOSE q \in DOMAIN document.provider : TRUE
                 lacking == MissingFields(document.provider[provider_id], <<"options", "models">>)
             IN  IF lacking # <<>>
                 THEN <<[kind |-> "missing_section", field |-> Head(lacking)]>>
                 ELSE <<>>

\* VALID_TOP_LEVEL_KEYS, lines 10-14
VALID_TOP_LEVEL_KEYS ==
    {"$schema", "plugin", "enterprise", "instructions", "provider", "mcp", "tools", "agent",
     "command", "keybinds", "username", "share", "permission", "compaction", "sse", "mode",
     "autoshare"}

\* validate_config, lines 24-59, on a parsed document of at most one
\* provider: the pair it returns
sv_validate_config(cfg) ==
    LET invalid_keys == DOMAIN cfg \ VALID_TOP_LEVEL_KEYS
        providers == IF Has(cfg, "provider") THEN cfg.provider ELSE <<>>
        errors ==
            (IF invalid_keys # {}
             THEN <<[kind |-> "invalid_keys", keys |-> invalid_keys],
                    [kind |-> "valid_keys", keys |-> VALID_TOP_LEVEL_KEYS]>>
             ELSE <<>>)
            \o (IF ~Has(cfg, "provider")
                THEN <<[kind |-> "missing_provider", keys |-> {}]>> ELSE <<>>)
            \o (IF DOMAIN providers = {} THEN <<>>
                ELSE LET provider_key == CHOOSE q \in DOMAIN providers : TRUE
                     IN  (IF ~Has(providers[provider_key], "options")
                          THEN <<[kind |-> "missing_options", keys |-> {provider_key}]>>
                          ELSE <<>>)
                         \o (IF Has(cfg, "models")
                             THEN <<[kind |-> "models_at_top_level", keys |-> {}]>>
                             ELSE <<>>))
    IN  [valid |-> Len(errors) = 0, errors |-> errors, warnings |-> <<>>]

InitRules ==
    /\ row = NoRow
    /\ derived = NotDerived
    /\ BatchIdle
    /\ MonitorIdle
    /\ SynthIdle
    /\ PollIdle
    /\ gen_result = NoResult
    /\ fs = NoFile
    /\ heap \in RuleDocuments
    /\ vdoc = Deref(heap, 1)
    /\ vpc = "loaded"
    /\ vresult = <<>>
    /\ fixed = 0

\* validate_config, lines 16-59: json.load raises or the checks run
sv_validate ==
    /\ vpc = "loaded"
    /\ \/ vresult' = [validation_result |->
                         [valid |-> FALSE, errors |-> <<[kind |-> "parse", keys |-> {}]>>,
                          warnings |-> <<>>]]
       \/ vresult' = [validation_result |-> sv_validate_config(Plain(heap, 1))]
    /\ vpc' = "sv_validated"
    /\ UNCHANGED <<not_val_vars, fs, heap, vdoc, fixed>>

\* validate_opencode_config of generate_ultimate_opencode_optimized.py on
\* the document
optv_validate ==
    /\ vpc = "loaded"
    /\ LET document == Plain(heap, 1)
       IN  vresult' = [validation_result |->
                         [valid |-> opt_validate_opencode_config(document),
                          errors |-> opt_validate_errors(document),
                          warnings |-> <<>>]]
    /\ vpc' = "opt_validated"
    /\ UNCHANGED <<not_val_vars, fs, heap, vdoc, fixed>>

NextRules == val_validate \/ sv_validate \/ optv_validate

SpecRules == InitRules /\ [][NextRules]_vars

\* the rules of validate_opencode_config that a document breaks: a required
\* key that is absent, a section a provider lacks
OptBrokenRules(document) ==
    { k \in {"$schema", "username", "provider"} : ~Has(document, k) }
    \cup (IF Has(document, "provider")
          THEN { qk \in (DOMAIN document.provider) \X {"options", "models"} :
                   ~Has(document.provider[qk[1]], qk[2]) }
          ELSE {})

\* C22: every rule a document breaks is reported on its own: the errors
\* validate_opencode_config reports are as many as the rules the document breaks.
C22_EveryViolationReported ==
    vpc = "opt_validated" =>
        Len(vresult.validation_result.errors) = Cardinality(OptBrokenRules(Plain(heap, 1)))

\* the provider map of the loaded document is missing or empty
NoProviderMap == ~Has(heap[1], "provider") \/ DOMAIN heap[heap[1]["provider"].v] = {}

\* C23: a report of a validator on a document whose provider map is missing
\* or empty has an error and valid = false.
C23_NoProvidersIsError ==
    (vpc \in {"validated", "sv_validated"} /\ NoProviderMap)
        => /\ ~vresult.validation_result.valid
           /\ vresult.validation_result.errors # <<>>

\* the same for the case each validator does handle: OpenCodeValidator an
\* empty map, validate_config a missing one
NoProvidersHandledCases ==
    /\ (vpc = "validated" /\ Has(heap[1], "provider") /\ NoProviderMap)
          => ~vresult.validation_result.valid
    /\ (vpc = "sv_validated" /\ ~Has(heap[1], "provider"))
          => ~vresult.validation_result.valid

\* the provider of the loaded document has a models map that is empty
EmptyModelsMap ==
    /\ Has(heap[1], "provider")
    /\ \E q \in DOMAIN heap[heap[1]["provider"].v] :
         LET provider_data == heap[heap[heap[1]["provider"].v][q].v]
         IN  Has(provider_data, "models") /\ DOMAIN heap[provider_data["models"].v] = {}

\* C24: the report of OpenCodeValidator on a document whose provider has an
\* empty models map holds the warning that the provider has no models, and
\* none of its errors is about the models of that provider.
C24_EmptyModelsIsWarning ==
    (vpc = "validated" /\ EmptyModelsMap) =>
        LET report == vresult.validation_result
        IN  /\ \E i \in 1..Len(report.warnings) : report.warnings[i].kind = "no_models"
            /\ \A i \in 1..Len(report.errors) :
                 /\ report.errors[i].kind \notin {"no_models", "missing_model_field"}
                 /\ ~(report.errors[i].kind = "missing_provider_field"
                      /\ report.errors[i].field = "models")

\* a document that is complete but for its empty models map has been
\* validated: the report is valid and warns
C24_Witness ==
    /\ vpc = "validated"
    /\ EmptyModelsMap
    /\ vresult.validation_result.valid
    /\ vresult.validation_result.errors = <<>>
    /\ \E i \in 1..Len(vresult.validation_result.warnings) :
         vresult.validation_result.warnings[i].kind = "no_models"

\* C25: in the report of OpenCodeValidator and in the result of
\* validate_config the valid flag is true exactly when the error list is
\* empty, whatever the warnings are.
C25_ValidIffNoErrors ==
    vpc \in {"validated", "sv_validated"} =>
        (vresult.validation_result.valid <=> vresult.validation_result.errors = <<>>)

\* a report with warnings and no error has been produced, and it is valid
C25_Witness ==
    /\ vpc = "validated"
    /\ vresult.validation_result.warnings # <<>>
    /\ vresult.validation_result.errors = <<>>
    /\ vresult.validation_result.valid

\* the templated token ${...} substituted when no secret is available
IsPlaceholder(s) ==
    Len(s) >= 3 /\ s[1] = "$" /\ s[2] = "{" /\ s[Len(s)] = "}"

\* the providers of the loaded document whose credential is a placeholder
PlaceholderProviders ==
    IF ~Has(heap[1], "provider") THEN {}
    ELSE { q \in DOMAIN heap[heap[1]["provider"].v] :
             LET provider_data == heap[heap[heap[1]["provider"].v][q].v]
             IN  /\ Has(provider_data, "options")
                 /\ Has(heap[provider_data["options"].v], "apiKey")
                 /\ IsPlaceholder(Spell(heap[provider_data["options"].v]["apiKey"].v)) }

\* C26: when the credential of a provider is a placeholder, whatever the
\* provider name inside it, no error of the report of OpenCodeValidator is
\* about the credential of that provider.
C26_PlaceholderNeverError ==
    vpc = "validated" =>
        \A q \in PlaceholderProviders :
            \A i \in 1..Len(vresult.validation_result.errors) :
                LET e == vresult.validation_result.errors[i]
                IN  ~(e.provider = q /\ (e.kind = "api_key_format" \/ e.field = "apiKey"))

\* a placeholder that the credential pattern rejects (a digit in the name)
\* has been validated: a warning about its format and a valid report
C26_Witness ==
    /\ vpc = "validated"
    /\ \E q \in PlaceholderProviders :
         /\ ~api_key_format(Spell(heap[heap[heap[heap[1]["provider"].v][q].v]["options"].v]["apiKey"].v))
         /\ \E i \in 1..Len(vresult.validation_result.warnings) :
              /\ vresult.validation_result.warnings[i].kind = "api_key_format"
              /\ vresult.validation_result.warnings[i].field = q
    /\ vresult.validation_result.valid

\* the characters of an identifier-safe model key
KeyCharacters == AlphaNum \cup {".", "-", "_", "/", "(", ")", "|"}

\* the model keys of the loaded document, each with its provider
ModelKeys ==
    IF ~Has(heap[1], "provider") THEN {}
    ELSE { qk \in (DOMAIN heap[heap[1]["provider"].v]) \X
                  {"gpt-4", "llama_v2", "gpt-4(streaming|elite)", "gpt 4"} :
             LET provider_data == heap[heap[heap[1]["provider"].v][qk[1]].v]
             IN  /\ Has(provider_data, "models")
                 /\ qk[2] \in DOMAIN heap[provider_data["models"].v] }

UnusualFormatWarned(model_id) ==
    \E i \in 1..Len(vresult.validation_result.warnings) :
        /\ vresult.validation_result.warnings[i].kind = "unusual_format"
        /\ vresult.validation_result.warnings[i].field = model_id

\* C27: a model key made only of letters, digits and . - _ / ( ) | gets no
\* "unusual format" warning from OpenCodeValidator; any other key gets the
\* warning, and no key gets an error for its format.
C27_KeyFormatWarning ==
    vpc = "validated" =>
        /\ \A qk \in ModelKeys :
             UnusualFormatWarned(qk[2]) <=>
                 ~(\A i \in 1..Len(Spell(qk[2])) : Spell(qk[2])[i] \in KeyCharacters)
        /\ \A i \in 1..Len(vresult.validation_result.errors) :
             vresult.validation_result.errors[i].kind # "unusual_format"

\* the part of C27 that the validator keeps: a key with a character outside
\* the identifier-safe set is warned about, a key of letters, digits and
\* . - _ is not, and the format of a key never gives an error
KeyFormatWithoutSuffixCharacters ==
    vpc = "validated" =>
        /\ \A qk \in ModelKeys :
             /\ (\E i \in 1..Len(Spell(qk[2])) : Spell(qk[2])[i] \notin KeyCharacters)
                    => UnusualFormatWarned(qk[2])
             /\ (\A i \in 1..Len(Spell(qk[2])) :
                     Spell(qk[2])[i] \in AlphaNum \cup {".", "-", "_"})
                    => ~UnusualFormatWarned(qk[2])
        /\ \A i \in 1..Len(vresult.validation_result.errors) :
             vresult.validation_result.errors[i].kind # "unusual_format"

(***************************************************************************)
(* Ingestion of rows whose model id is empty or NULL by the database       *)
(* scripts. The NULL of the database is the None of Python, written "None" *)
(* as str() and the f-string of line 167 write it.                         *)
(***************************************************************************)

IngestModelIds == {"None", "", "foo"}

\* providers.name as the database holds it: three spellings of cerebras
IngestProviders == {" cerebras", "Cerebras", "cerebras", "openai"}

IngestRows ==
    { [provider_name |-> p, model_id |-> m, model_name |-> m,
       verification_status |-> st] @@ pr :
        p \in IngestProviders, m \in IngestModelIds, st \in DbStatuses, pr \in Profiles }

\* the byte order of the provider names
NameRank(p) ==
    CASE p = " cerebras" -> 0 [] p = "Cerebras" -> 1 [] p = "cerebras" -> 2 [] OTHER -> 3

\* ORDER BY p.name, m.model_id: NULL sorts first, then the empty string
IdRank(m) == CASE m = "None" -> 0 [] m = "" -> 1 [] OTHER -> 2

IngestLeq(a, b) ==
    \/ NameRank(a.provider_name) < NameRank(b.provider_name)
    \/ a.provider_name = b.provider_name /\ IdRank(a.model_id) <= IdRank(b.model_id)

IngestResults ==
    { q \in UNION { [1..n -> IngestRows] : n \in 0..MaxRows } :
        \A i \in 1..(Len(q) - 1) : IngestLeq(q[i], q[i + 1]) }

InitIngest ==
    /\ ExtIdle
    /\ row = NoRow
    /\ derived = NotDerived
    /\ db \in IngestResults
    /\ environ \in Environments
    /\ script = "none"
    /\ bpc = "start"
    /\ config = NoConfig
    /\ raised = ""
    /\ MonitorIdle
    /\ fs = NoFile

NextIngest == csf_assemble \/ cmc_assemble

SpecIngest == InitIngest /\ [][NextIngest]_vars

\* the rows of the result whose model id is empty or NULL
MalformedRows == { i \in 1..Len(db) : db[i].model_id \in {"", "None"} }

\* the document holds a model entry made from row i
Ingested(i) ==
    /\ db[i].provider_name \in DOMAIN config.provider
    /\ ModelKeyOf(script, db[i]) \in DOMAIN config.provider[db[i].provider_name].models

\* C28: once a database script has assembled its document, no model entry
\* of the document comes from a row whose model id is empty or NULL, and
\* every other row of a grouped provider has its entry (the ingestion was
\* not aborted).
C28_MalformedRowDropped ==
    bpc = "assembled" =>
        /\ \A i \in MalformedRows : ~Ingested(i)
        /\ \A i \in (1..Len(db)) \ MalformedRows :
             Grouped(script, db[i]) => Ingested(i)

\* the part of C28 that the scripts keep: a row without a model id does not
\* stop the loop, the rows around it are ingested
MalformedRowKeepsOthers ==
    bpc = "assembled" =>
        \A i \in (1..Len(db)) \ MalformedRows :
            Grouped(script, db[i]) => Ingested(i)

(***************************************************************************)
(* Grouping by provider of scripts/export_opencode_config_fixed.py (ofx_)  *)
(* and final_llmverifier_opencode.py (fin_): the input maps each provider  *)
(* to the list of its model ids.                                           *)
(***************************************************************************)

GroupProviders == {"openai", "acme"}
GroupModelLists == { <<>>, <<"gpt-4">>, <<"gpt-4", "llama">> }

\* the loaded map of provider name to model ids
ProviderModels ==
    UNION { [ps -> GroupModelLists] : ps \in SUBSET GroupProviders }

GroupApiKeys == { <<>>, [openai |-> "sk-live"] }

GroupInputs == [provider_models : ProviderModels, api_keys : GroupApiKeys]

\* the value None that create_final_llmverifier_config returns
PyNone == [none |-> TRUE]

\* provider_name.upper()
Upper(name) == IF name = "openai" THEN "OPENAI" ELSE "ACME"

\* dict.get(key, default)
dict_get(d, k, default) == IF k \in DOMAIN d THEN d[k] ELSE default

\* get_provider_config, lines 123-393: the table entry of openai and the
\* default entry of a provider outside the table
ofx_get_provider_config(api_keys, provider_name) ==
    IF provider_name = "openai"
    THEN [id |-> "openai", npm |-> "@opencode/openai-provider",
          options |-> [apiKey |-> dict_get(api_keys, "openai", "${OPENAI_API_KEY}"),
                       baseURL |-> "https://api.openai.com/v1"]]
    ELSE [id |-> provider_name, npm |-> "@opencode/" \o provider_name \o "-provider",
          options |-> [apiKey |-> "${" \o Upper(provider_name) \o "_API_KEY}",
                       baseURL |-> "https://api." \o provider_name \o ".com/v1"]]

\* model_id.split('/')[-1].replace('-', ' ').title()
ofx_display_name(model_id) == IF model_id = "gpt-4" THEN "Gpt 4" ELSE "Llama"

\* create_model_entry, lines 395-449
ofx_create_model_entry(model_id, provider_name) ==
    [id |-> model_id,
     name |-> ofx_display_name(model_id) \o " (Challenge Verified)",
     displayName |-> ofx_display_name(model_id) \o " (Challenge Verified)",
     maxTokens |-> IF model_id = "gpt-4" THEN 8192 ELSE 4096,
     cost_per_1m_in |-> IF model_id = "gpt-4" THEN "30.0" ELSE "0.5",
     cost_per_1m_out |-> IF model_id = "gpt-4" THEN "60.0" ELSE "1.5",
     supportsBrotli |-> TRUE, supportsHTTP3 |-> TRUE, supportsWebSocket |-> TRUE,
     provider |-> [id |-> provider_name,
                   npm |-> "@opencode/" \o provider_name \o "-provider"]]

\* the elements of a list
Elements(s) == { s[i] : i \in 1..Len(s) }

\* OfficialOpenCodeExporter.generate_config, lines 451-512
ofx_generate_config(verification_data, api_keys) ==
    ("$schema" :> "https://opencode.sh/schema.json")
    @@ [username |-> "OpenCode AI Assistant (Ultimate Challenge)",
        provider |->
            [provider_name \in { p \in DOMAIN verification_data : verification_data[p] # <<>> } |->
                ofx_get_provider_config(api_keys, provider_name)
                @@ [models |-> [model_id \in Elements(verification_data[provider_name]) |->
                                   ofx_create_model_entry(model_id, provider_name)]]],
        agent |-> [name |-> "OpenCode AI Assistant", version |-> "1.0.0"],
        mcp |-> [servers |-> <<>>],
        command |-> [timeout |-> 30000],
        keybinds |-> [toggleSidebar |-> "ctrl+b", quickCommand |-> "ctrl+shift+p"],
        options |-> [theme |-> "dark", autoSave |-> TRUE, enableChallengeVerification |-> TRUE],
        tools |-> [enabled |-> TRUE, maxTools |-> 10],
        lsp |-> [enabled |-> TRUE, servers |-> <<>>]]

\* get_provider_base_url, lines 99-137
fin_get_provider_base_url(provider_name) ==
    IF provider_name = "openai" THEN "https://api.openai.com/v1"
    ELSE "https://api." \o provider_name \o ".com/v1"

\* create_final_llmverifier_config, lines 45-97
fin_create_final_llmverifier_config(provider_models, api_keys) ==
    IF DOMAIN provider_models = {} THEN PyNone
    ELSE ("$schema" :> "https://opencode.ai/config.json")
         @@ [version |-> "1.0",
             username |-> "OpenCode AI Assistant (Ultimate Challenge Results)",
             provider |->
                [provider_name \in { p \in DOMAIN provider_models : provider_models[p] # <<>> } |->
                    [options |-> [apiKey |-> dict_get(api_keys, provider_name,
                                                "${" \o Upper(provider_name) \o "_API_KEY}"),
                                  baseURL |-> fin_get_provider_base_url(provider_name)],
                     models |-> <<>>,
                     model |-> provider_models[provider_name][1]]]]

InitGroup ==
    /\ row = NoRow
    /\ derived = NotDerived
    /\ BatchIdle
    /\ MonitorIdle
    /\ ValidatorIdle
    /\ PollIdle
    /\ gen_result = NoResult
    /\ fs = NoFile
    /\ sgen \in {"ofx", "fin"}
    /\ sinput \in GroupInputs
    /\ sdocs = <<>>
    /\ sclock = 0

\* exporter.generate_config() on the loaded verification data
ofx_run ==
    /\ sgen = "ofx"
    /\ Len(sdocs) < 2
    /\ sdocs' = Append(sdocs, ofx_generate_config(sinput.provider_models, sinput.api_keys))
    /\ UNCHANGED <<not_syn_vars, sgen, sinput, sclock>>

\* create_final_llmverifier_config() on the extracted models
fin_run ==
    /\ sgen = "fin"
    /\ Len(sdocs) < 2
    /\ sdocs' = Append(sdocs, fin_create_final_llmverifier_config(sinput.provider_models,
                                                                  sinput.api_keys))
    /\ UNCHANGED <<not_syn_vars, sgen, sinput, sclock>>

NextGroup == ofx_run \/ fin_run

SpecGroup == InitGroup /\ [][NextGroup]_vars

\* the providers of the input that have no model
EmptyProviders ==
    { p \in DOMAIN sinput.provider_models : sinput.provider_models[p] = <<>> }

Includes(document, p) == "provider" \in DOMAIN document /\ p \in DOMAIN document.provider

\* C29: every assembled document includes each provider of the input that
\* has zero models, with an empty models map.
C29_EmptyProviderIncluded ==
    sgen \in {"ofx", "fin"} =>
        \A i \in 1..Len(sdocs) : \A p \in EmptyProviders :
            /\ Includes(sdocs[i], p)
            /\ sdocs[i].provider[p].models = <<>>

\* what the two scripts do: a provider with zero models is skipped, and the
\* providers with models are the providers of the document
EmptyProviderSkipped ==
    sgen \in {"ofx", "fin"} =>
        \A i \in 1..Len(sdocs) :
            "provider" \in DOMAIN sdocs[i] =>
                DOMAIN sdocs[i].provider = (DOMAIN sinput.provider_models) \ EmptyProviders

\* name.strip().lower() on the provider names of IngestProviders and of the
\* log lines
Normalized(name) ==
    CASE name \in {" cerebras", "Cerebras"} -> "cerebras"
      [] name = "OpenAI" -> "openai"
      [] OTHER -> name

\* C30: in the document of create_complete_suffixes_final, a row whose
\* normalized provider name has a credential is grouped under the entry of
\* the normalized name, which carries that credential; rows whose raw names
\* normalize identically are therefore under one entry.
C30_NormalizedNamesGrouped ==
    (script = "csf" /\ bpc = "assembled") =>
        \A i \in 1..Len(db) :
            LET provider == Normalized(db[i].provider_name)
            IN  provider \in DOMAIN real_api_keys(environ) =>
                    /\ provider \in DOMAIN config.provider
                    /\ config.provider[provider].options.apiKey = real_api_keys(environ)[provider]
                    /\ ModelKeyOf(script, db[i]) \in DOMAIN config.provider[provider].models

\* what create_complete_suffixes_final does: the raw name is the key, and a
\* row is grouped only when its raw name is a key of provider_env_map
RawNamesGrouped ==
    (script = "csf" /\ bpc = "assembled") =>
        /\ DOMAIN config.provider =
              { db[i].provider_name : i \in 1..Len(db) } \cap DOMAIN real_api_keys(environ)
        /\ \A i \in 1..Len(db) :
              db[i].provider_name # Normalized(db[i].provider_name)
                  => db[i].provider_name \notin DOMAIN config.provider

\* the part of C30 that the log parser keeps: the provider names of the log
\* lines are lower-cased, and the generated document has one entry per
\* lower-cased name
OptNamesLowerCased ==
    sgen = "opt" =>
        \A i \in 1..Len(sdocs) :
            /\ \A p \in DOMAIN sdocs[i].provider : Normalized(p) = p
            /\ \A k \in 1..Len(sinput.log.lines) :
                 sinput.log.lines[k].kind = "registered"
                     => Normalized(sinput.log.lines[k].provider) \in DOMAIN sdocs[i].provider

====
